---- MODULE Spec2Model ----
(***************************************************************************)
(* Model of the TransactionEnvelopeAA codec of tempo-ts (type 0x76,        *)
(* "Batched"/"AA" envelope): assert, from, serialize, deserialize, hash,   *)
(* getSignPayload, getFeePayerSignPayload.                                 *)
(*                                                                         *)
(* The codec's implementation file is not part of the source tree; its     *)
(* test-suite (src/unnamed/part_001) is.  Every behaviour the tests pin    *)
(* down (wire vectors, snapshots, error messages) is modelled from the     *)
(* tests; what the tests leave open is modelled from the specification.    *)
(*                                                                         *)
(* Representation.                                                         *)
(*  - a byte string is a sequence of 0..255; an RLP item is a tagged       *)
(*    record, either a byte string or a list of items; RLP itself and      *)
(*    keccak256 are external primitives and are kept symbolic (both are    *)
(*    injective), the conversions done by the codec are computed;          *)
(*  - an optional field is None (key absent / undefined) or Some(v);       *)
(*  - number/bigint fields are integers, except the two fee fields, whose  *)
(*    bound 2^256-1 exceeds the checker's integers: they are canonical     *)
(*    big-endian base-256 digit strings.                                   *)
(***************************************************************************)
EXTENDS Integers, Sequences, FiniteSets

\* ---------------------------------------------------------------- bounds
MaxCalls == 2
MaxNat == 2
MaxExtra == 3

\* ------------------------------------------------------------- optionals
None == <<>>
Some(v) == <<v>>
IsSome(o) == Len(o) = 1
IsNone(o) == Len(o) = 0
Get(o) == o[1]
Opt(S) == {None} \cup {Some(v) : v \in S}

\* ------------------------------------------------------------ byte strings
RECURSIVE NatToBytes(_)
\* Hex.fromNumber: minimal big-endian bytes of a positive number.
NatToBytes(n) == IF n = 0 THEN <<>> ELSE Append(NatToBytes(n \div 256), n % 256)

RECURSIVE BytesToNat(_)
\* Number(hex) / BigInt(hex): big-endian value, leading zero bytes allowed.
BytesToNat(b) ==
  IF Len(b) = 0 THEN 0
  ELSE 256 * BytesToNat(SubSeq(b, 1, Len(b) - 1)) + b[Len(b)]

Zeros(n) == [i \in 1..n |-> 0]

\* Hex.fromNumber(x, { size }): left-padded big-endian.
PadLeft(b, size) == Zeros(size - Len(b)) \o b

RECURSIVE StripZeros(_)
\* BigInt(hex) on a digit string: the canonical digits of the same value.
StripZeros(b) ==
  IF Len(b) = 0 THEN b
  ELSE IF b[1] = 0 THEN StripZeros(Tail(b)) ELSE b

RECURSIVE LexGT(_, _)
LexGT(a, b) ==
  IF Len(a) = 0 THEN FALSE
  ELSE IF a[1] # b[1] THEN a[1] > b[1] ELSE LexGT(Tail(a), Tail(b))

\* a > b on canonical digit strings (bigint comparison).
BigGT(a, b) ==
  IF Len(a) # Len(b) THEN Len(a) > Len(b) ELSE LexGT(a, b)

\* 2n ** 256n - 1n
maxUint256 == [i \in 1..32 |-> 255]
\* 2n ** 256n - 1n + 1n
overUint256 == <<1>> \o Zeros(32)

\* ---------------------------------------------------------------- addresses
\* A 20-byte address; the last byte tells the addresses of the model apart.
Address(n) == Zeros(19) \o <<n>>
\* Address.validate / Address.assert({ strict: false }): 20 bytes.
AddressValidate(a) == Len(a) = 20
\* '0x000000000000000000000000000000000000000z': not a 20 byte value.
badAddress == Zeros(19)

AddrTo == Address(200)
AddrTo2 == Address(188)
TokenA == Address(0)
TokenB == Address(1)
Sender1 == Address(102)
Sender2 == Address(103)

\* ---------------------------------------------------------------- RLP items
Str(b) == [t |-> "s", b |-> b, l |-> <<>>]
Lst(l) == [t |-> "l", b |-> <<>>, l |-> l]
IsStr(x) == x.t = "s"
IsLst(x) == x.t = "l"
\* '0x'
EmptyStr == Str(<<>>)

\* ------------------------------------------------------------ signatures
\* SignatureEnvelope: { signature: { r, s, yParity }, type: 'secp256k1' } or
\* { signature: { r, s }, publicKey, prehash, type: 'p256' };
\* type "absent" stands for `signature: undefined`.
NoSignature ==
  [type |-> "absent", r |-> 0, s |-> 0, yParity |-> None,
   publicKey |-> None, prehash |-> None]
Secp256k1Envelope(r, s, yParity) ==
  [type |-> "secp256k1", r |-> r, s |-> s, yParity |-> Some(yParity),
   publicKey |-> None, prehash |-> None]
P256Envelope(r, s, publicKey, prehash) ==
  [type |-> "p256", r |-> r, s |-> s, yParity |-> None,
   publicKey |-> Some(publicKey), prehash |-> Some(prehash)]

\* What SignatureEnvelope.from is given: a bare { r, s, yParity }, or
\* { signature: { r, s, yParity? }, publicKey?, prehash? }.
NoSignatureInput ==
  [shape |-> "none", r |-> 0, s |-> 0, yParity |-> None,
   publicKey |-> None, prehash |-> None]

SignatureEnvelopeFrom_KeepsYParity(input) ==
  [type |-> IF input.shape = "explicit" /\ IsSome(input.publicKey)
              THEN "p256" ELSE "secp256k1",
   r |-> input.r, s |-> input.s, yParity |-> input.yParity,
   publicKey |-> input.publicKey, prehash |-> input.prehash]

\* SignatureEnvelope.from: a bare tuple is secp256k1; an object with a
\* public key is p256 and carries r, s, publicKey, prehash only.
SignatureEnvelopeFrom(input) ==
  IF input.shape = "explicit" /\ IsSome(input.publicKey)
    THEN P256Envelope(input.r, input.s, Get(input.publicKey),
                      IsSome(input.prehash) /\ Get(input.prehash))
    ELSE Secp256k1Envelope(input.r, input.s, Get(input.yParity))

\* feePayerSignature: undefined ("absent"), null, or { r, s, yParity }.
NoFeePayer == [kind |-> "absent", r |-> 0, s |-> 0, yParity |-> 0]
NullFeePayer == [kind |-> "null", r |-> 0, s |-> 0, yParity |-> 0]
FeePayerTuple(r, s, yParity) ==
  [kind |-> "signature", r |-> r, s |-> s, yParity |-> yParity]

\* The type byte that opens a serialized p256 signature.
p256Type == 1

\* SignatureEnvelope.serialize. secp256k1: r (32 bytes) || s (32 bytes) || v;
\* p256: type byte || r || s || public key (64 bytes) || prehash.
SignatureEnvelopeSerialize(sig) ==
  IF sig.type = "p256"
    THEN <<p256Type>> \o PadLeft(NatToBytes(sig.r), 32)
           \o PadLeft(NatToBytes(sig.s), 32)
           \o PadLeft(NatToBytes(Get(sig.publicKey)), 64)
           \o <<IF Get(sig.prehash) THEN 1 ELSE 0>>
    ELSE PadLeft(NatToBytes(sig.r), 32) \o PadLeft(NatToBytes(sig.s), 32)
           \o <<27 + Get(sig.yParity)>>

\* The byte strings SignatureEnvelope.deserialize accepts: 65 bytes, or 130
\* bytes opened by the p256 type byte.
SignatureEnvelopeValid(b) ==
  Len(b) = 65 \/ (Len(b) = 130 /\ b[1] = p256Type)

\* SignatureEnvelope.deserialize: a 65-byte string is a secp256k1 signature,
\* a 130-byte string a p256 one.
SignatureEnvelopeDeserialize(b) ==
  IF Len(b) = 65
    THEN Secp256k1Envelope(BytesToNat(SubSeq(b, 1, 32)),
                           BytesToNat(SubSeq(b, 33, 64)),
                           IF b[65] = 28 \/ b[65] = 1 THEN 1 ELSE 0)
    ELSE P256Envelope(BytesToNat(SubSeq(b, 2, 33)), BytesToNat(SubSeq(b, 34, 65)),
                      BytesToNat(SubSeq(b, 66, 129)), b[130] # 0)

SignatureToTuple_TrailingParity(fp) ==
  Lst(<<Str(NatToBytes(fp.r)), Str(NatToBytes(fp.s)), Str(NatToBytes(fp.yParity))>>)

\* Signature.toTuple: [yParity, r, s], each minimal ('0x' for 0).
SignatureToTuple(fp) ==
  Lst(<<Str(NatToBytes(fp.yParity)), Str(NatToBytes(fp.r)), Str(NatToBytes(fp.s))>>)

\* Signature.fromTuple: [yParity, r, s].
SignatureFromTuple(item) ==
  FeePayerTuple(BytesToNat(item.l[2].b), BytesToNat(item.l[3].b),
                BytesToNat(item.l[1].b))

\* ---------------------------------------------------------------- results
Ok(v) == [status |-> "ok", error |-> "", missing |-> <<>>, value |-> v]
Err(e, v) == [status |-> "error", error |-> e, missing |-> <<>>, value |-> v]
NotRun == [status |-> "none", error |-> "", missing |-> <<>>, value |-> <<>>]

\* ---------------------------------------------------------------- assert
RECURSIVE AnyBadTo(_)
\* for (const call of calls) if (call.to) Address.assert(call.to)
AnyBadTo(calls) ==
  IF Len(calls) = 0 THEN FALSE
  ELSE (IsSome(calls[1].to) /\ ~AddressValidate(Get(calls[1].to)))
       \/ AnyBadTo(Tail(calls))

CallsEmptyCheck(e) == IsNone(e.calls) \/ Len(Get(e.calls)) = 0

ValidityWindowCheck_Strict(e) ==
  IsSome(e.validBefore) /\ IsSome(e.validAfter)
    /\ Get(e.validBefore) < Get(e.validAfter)

ValidityWindowCheck(e) ==
  IsSome(e.validBefore) /\ IsSome(e.validAfter)
    /\ Get(e.validBefore) <= Get(e.validAfter)

FeeCapTooHighCheck_CapOnly(e) ==
  IsSome(e.maxFeePerGas) /\ BigGT(Get(e.maxFeePerGas), maxUint256)

FeeCapTooHighCheck(e) ==
  \/ IsSome(e.maxFeePerGas) /\ BigGT(Get(e.maxFeePerGas), maxUint256)
  \/ IsSome(e.maxPriorityFeePerGas)
       /\ BigGT(Get(e.maxPriorityFeePerGas), maxUint256)

TipAboveFeeCapCheck_OrEqual(e) ==
  IsSome(e.maxFeePerGas) /\ IsSome(e.maxPriorityFeePerGas)
    /\ (\/ Get(e.maxPriorityFeePerGas) = Get(e.maxFeePerGas)
        \/ BigGT(Get(e.maxPriorityFeePerGas), Get(e.maxFeePerGas)))

TipAboveFeeCapCheck(e) ==
  IsSome(e.maxFeePerGas) /\ IsSome(e.maxPriorityFeePerGas)
    /\ BigGT(Get(e.maxPriorityFeePerGas), Get(e.maxFeePerGas))

InvalidChainIdCheck(e) == e.chainId < 1

assertEnvelope_WindowFirst(e) ==
  IF ValidityWindowCheck(e) THEN "InvalidValidityWindow"
  ELSE IF CallsEmptyCheck(e) THEN "CallsEmpty"
  ELSE IF AnyBadTo(Get(e.calls)) THEN "InvalidAddress"
  ELSE IF FeeCapTooHighCheck(e) THEN "FeeCapTooHigh"
  ELSE IF TipAboveFeeCapCheck(e) THEN "TipAboveFeeCap"
  ELSE IF InvalidChainIdCheck(e) THEN "InvalidChainId"
  ELSE "ok"

assertEnvelope_ChainIdFirst(e) ==
  IF CallsEmptyCheck(e) THEN "CallsEmpty"
  ELSE IF ValidityWindowCheck(e) THEN "InvalidValidityWindow"
  ELSE IF AnyBadTo(Get(e.calls)) THEN "InvalidAddress"
  ELSE IF InvalidChainIdCheck(e) THEN "InvalidChainId"
  ELSE IF FeeCapTooHighCheck(e) THEN "FeeCapTooHigh"
  ELSE IF TipAboveFeeCapCheck(e) THEN "TipAboveFeeCap"
  ELSE "ok"

\* assert(envelope): the error of the first violated invariant, or "ok".
assertEnvelope(e) ==
  IF CallsEmptyCheck(e) THEN "CallsEmpty"
  ELSE IF ValidityWindowCheck(e) THEN "InvalidValidityWindow"
  ELSE IF AnyBadTo(Get(e.calls)) THEN "InvalidAddress"
  ELSE IF FeeCapTooHighCheck(e) THEN "FeeCapTooHigh"
  ELSE IF TipAboveFeeCapCheck(e) THEN "TipAboveFeeCap"
  ELSE IF InvalidChainIdCheck(e) THEN "InvalidChainId"
  ELSE "ok"

validate_AddressErrorEscapes(e) ==
  assertEnvelope(e) \in {"ok", "InvalidAddress"}

\* validate(envelope): try { assert(envelope); return true } catch { return false }
validate(e) == assertEnvelope(e) = "ok"

\* ---------------------------------------------------------------- options
\* export const type = 'aa'
type == "aa"

NoOptions ==
  [signature |-> NoSignature, feePayerSignature |-> NoFeePayer,
   sender |-> None, format |-> "default", presign |-> FALSE]

\* ------------------------------------------------------------ arguments
argumentAfter_MergesOptions(e, options) ==
  [e EXCEPT
    !.signature = IF options.signature.type # "absent"
                    THEN options.signature ELSE @,
    !.feePayerSignature = IF options.feePayerSignature.kind # "absent"
                            THEN options.feePayerSignature ELSE @]

\* The envelope passed to a codec operation, as the call leaves it: the
\* operations build new values from their argument and assign to none of
\* its fields.
argumentAfter(e, options) == e

\* ---------------------------------------------------------------- from
\* from(envelope, options): asserts, then
\* { ...envelope, ...(signature ? { signature } : {}),
\*   ...(feePayerSignature ? { feePayerSignature } : {}), type: 'aa' }.
\* A null feePayerSignature option is falsy and leaves the envelope as it is.
fromDraft_DefaultNonceKey(d, options) ==
  IF assertEnvelope(d) # "ok" THEN Err(assertEnvelope(d), d)
  ELSE Ok([d EXCEPT
            !.type = type,
            !.nonceKey = IF IsNone(@) THEN Some(0) ELSE @,
            !.signature = IF options.signature.type # "absent"
                            THEN options.signature ELSE @,
            !.feePayerSignature = IF options.feePayerSignature.kind = "signature"
                                    THEN options.feePayerSignature ELSE @])

fromDraft_DropsSignatureOfEnvelope(d, options) ==
  IF assertEnvelope(d) # "ok" THEN Err(assertEnvelope(d), d)
  ELSE Ok([d EXCEPT
            !.type = type,
            !.signature = IF options.signature.type # "absent"
                            THEN options.signature
                          ELSE IF d.type = type THEN NoSignature ELSE @,
            !.feePayerSignature = IF options.feePayerSignature.kind = "signature"
                                    THEN options.feePayerSignature ELSE @])

fromDraft(d, options) ==
  IF assertEnvelope(d) # "ok" THEN Err(assertEnvelope(d), d)
  ELSE Ok([d EXCEPT
            !.type = type,
            !.signature = IF options.signature.type # "absent"
                            THEN options.signature ELSE @,
            !.feePayerSignature = IF options.feePayerSignature.kind = "signature"
                                    THEN options.feePayerSignature ELSE @])

\* ---------------------------------------------------------------- serialize
IntItem_ZeroAsByte(o) ==
  IF IsNone(o) THEN EmptyStr
  ELSE IF Get(o) = 0 THEN Str(<<0>>) ELSE Str(NatToBytes(Get(o)))

\* An integer field: 0 or undefined |-> '0x', else Hex.fromNumber.
IntItem(o) == IF IsSome(o) THEN Str(NatToBytes(Get(o))) ELSE EmptyStr
\* A bigint fee field.
BigItem(o) == IF IsSome(o) THEN Str(StripZeros(Get(o))) ELSE EmptyStr
\* An address or byte-string field: undefined |-> '0x'.
BytesItem(o) == IF IsSome(o) THEN Str(Get(o)) ELSE EmptyStr

\* calls.map((call) => [call.to ?? '0x', value ? fromNumber(value) : '0x', data ?? '0x'])
CallItem(call) == Lst(<<BytesItem(call.to), IntItem(call.value), BytesItem(call.data)>>)
CallsItem(o) ==
  IF IsSome(o) THEN Lst([i \in 1..Len(Get(o)) |-> CallItem(Get(o)[i])])
  ELSE Lst(<<>>)

\* AccessList.toTupleList: [[address, [storageKey, ...]], ...]
AccessEntryItem(a) ==
  Lst(<<Str(a.address),
        Lst([i \in 1..Len(a.storageKeys) |-> Str(a.storageKeys[i])])>>)
AccessListItem_AbsentIsEmptyString(o) ==
  IF IsSome(o) THEN Lst([i \in 1..Len(Get(o)) |-> AccessEntryItem(Get(o)[i])])
  ELSE EmptyStr

AccessListItem(o) ==
  IF IsSome(o) THEN Lst([i \in 1..Len(Get(o)) |-> AccessEntryItem(Get(o)[i])])
  ELSE Lst(<<>>)

FeePayerSlot_SignatureOverSender(e, options) ==
  LET fp == IF options.feePayerSignature.kind # "absent"
              THEN options.feePayerSignature ELSE e.feePayerSignature
  IN IF fp.kind = "signature" THEN SignatureToTuple(fp)
     ELSE IF IsSome(options.sender) THEN Str(Get(options.sender))
     ELSE IF fp.kind = "null" THEN Str(<<0>>)
     ELSE EmptyStr

FeePayerSlot_NullAsEmpty(e, options) ==
  LET fp == IF options.feePayerSignature.kind # "absent"
              THEN options.feePayerSignature ELSE e.feePayerSignature
  IN IF IsSome(options.sender) THEN Str(Get(options.sender))
     ELSE IF fp.kind = "signature" THEN SignatureToTuple(fp)
     ELSE EmptyStr

\* The fee-payer slot: the bound sender when one is given, '0x00' for null,
\* '0x' for undefined, [yParity, r, s] for a signature.
FeePayerSlot(e, options) ==
  LET fp == IF options.feePayerSignature.kind # "absent"
              THEN options.feePayerSignature ELSE e.feePayerSignature
  IN IF IsSome(options.sender) THEN Str(Get(options.sender))
     ELSE IF fp.kind = "null" THEN Str(<<0>>)
     ELSE IF fp.kind = "signature" THEN SignatureToTuple(fp)
     ELSE EmptyStr

\* The trailing signature field; the fee payer format carries none.
SignatureFields(e, options) ==
  LET sig == IF options.signature.type # "absent"
               THEN options.signature ELSE e.signature
  IN IF options.format = "feePayer" \/ sig.type = "absent"
       THEN <<>>
       ELSE <<Str(SignatureEnvelopeSerialize(sig))>>

presignEnvelope_KeepsFeePayer(e) == [e EXCEPT !.signature = NoSignature]

\* presign: true omits both the signature and the fee-payer field.
presignEnvelope(e) ==
  [e EXCEPT !.signature = NoSignature, !.feePayerSignature = NoFeePayer]

\* '0x76' for a transaction, '0x78' for the fee payer's signing payload;
\* '0x77' is the type of the FeeToken envelope.
serializedType == 118
feeTokenType == 119
feePayerMagic_TransactionType == serializedType
feePayerMagic == 120

\* The RLP list of an envelope, in wire order.
serializeFields(e, options) ==
  << Str(NatToBytes(e.chainId)),
     BigItem(e.maxPriorityFeePerGas),
     BigItem(e.maxFeePerGas),
     IntItem(e.gas),
     CallsItem(e.calls),
     AccessListItem(e.accessList),
     IntItem(e.nonceKey),
     IntItem(e.nonce),
     IntItem(e.validBefore),
     IntItem(e.validAfter),
     BytesItem(e.feeToken),
     FeePayerSlot(e, options),
     Lst(<<>>) >> \o SignatureFields(e, options)

serialize(e, options) ==
  [type |-> IF options.format = "feePayer" THEN feePayerMagic ELSE serializedType,
   items |-> IF options.presign
               THEN serializeFields(presignEnvelope(e),
                                    [options EXCEPT !.signature = NoSignature,
                                                    !.feePayerSignature = NoFeePayer])
               ELSE serializeFields(e, options)]

\* Hash.keccak256, kept symbolic: equal hashes iff equal preimages.
keccak256(w) == <<"keccak256", w>>

hash_AlwaysPresign(e, options) ==
  keccak256(serialize(e, [NoOptions EXCEPT !.presign = TRUE]))

hash(e, options) ==
  keccak256(serialize(e, [NoOptions EXCEPT !.presign = options.presign]))

getSignPayload(e) == hash(e, [NoOptions EXCEPT !.presign = TRUE])

getFeePayerSignPayload_NoFeeToken(e, sender) ==
  keccak256(serialize([e EXCEPT !.feeToken = None],
                      [NoOptions EXCEPT !.sender = Some(sender),
                                        !.format = "feePayer"]))

getFeePayerSignPayload(e, sender) ==
  keccak256(serialize(e, [NoOptions EXCEPT !.sender = Some(sender),
                                            !.format = "feePayer"]))

\* ---------------------------------------------------------------- deserialize
\* The attributes handed to InvalidSerializedError, in wire order.
attributeNames ==
  << "chainId", "maxPriorityFeePerGas", "maxFeePerGas", "gas", "calls",
     "accessList", "nonceKey", "nonce", "validBefore", "validAfter",
     "feeToken", "feePayerSignatureOrSender" >>

lengthWithoutSignature_Short == Len(attributeNames)
lengthWithoutSignature == 13
lengthWithSignature_Tuple == lengthWithoutSignature + 3
lengthWithSignature == 14

\* InvalidSerializedError: the attributes that are undefined, and the bytes.
InvalidSerialized(w) ==
  LET n == Len(w.items)
      k == Len(attributeNames)
  IN [status |-> "error", error |-> "InvalidSerialized",
      missing |-> IF n < k THEN [i \in 1..(k - n) |-> attributeNames[n + i]]
                  ELSE <<>>,
      value |-> w]

DecodeOptInt_EmptyIsZero(item) == Some(BytesToNat(item.b))

\* '0x' |-> undefined, else the number.
DecodeOptInt(item) ==
  IF Len(item.b) = 0 THEN None ELSE Some(BytesToNat(item.b))
\* nonce and nonceKey: '0x' |-> 0n.
DecodeNonce(item) == Some(BytesToNat(item.b))
DecodeOptBig(item) ==
  IF Len(item.b) = 0 THEN None ELSE Some(StripZeros(item.b))
DecodeOptBytes(item) ==
  IF Len(item.b) = 0 THEN None ELSE Some(item.b)

DecodeCall(item) ==
  [to |-> DecodeOptBytes(item.l[1]),
   value |-> DecodeOptInt(item.l[2]),
   data |-> DecodeOptBytes(item.l[3])]

\* calls: the list mapped call by call; '0x' leaves calls undefined.
DecodeCalls(item) ==
  IF IsLst(item) THEN Some([i \in 1..Len(item.l) |-> DecodeCall(item.l[i])])
  ELSE None

DecodeAccessEntry(item) ==
  [address |-> item.l[1].b,
   storageKeys |-> [i \in 1..Len(item.l[2].l) |-> item.l[2].l[i].b]]

\* accessList: set only when the list is not empty.
DecodeAccessList(item) ==
  IF IsLst(item) /\ Len(item.l) > 0
    THEN Some([i \in 1..Len(item.l) |-> DecodeAccessEntry(item.l[i])])
    ELSE None

DecodeFeePayer_EmptyIsNull(item) ==
  IF IsLst(item) THEN SignatureFromTuple(item) ELSE NullFeePayer

\* The fee-payer slot by its own shape: a list is a signature tuple, '0x' is
\* no fee payer, '0x00' or an address is `null`.
DecodeFeePayer(item) ==
  IF IsLst(item) THEN SignatureFromTuple(item)
  ELSE IF Len(item.b) = 0 THEN NoFeePayer
  ELSE NullFeePayer

deserialize(w) ==
  LET items == w.items
      n == Len(items)
  IN IF ~(n = lengthWithoutSignature \/ n = lengthWithSignature)
       THEN InvalidSerialized(w)
     ELSE IF n = lengthWithSignature /\ ~SignatureEnvelopeValid(items[14].b)
       THEN Err("InvalidSignature", w)
     ELSE
       LET transaction ==
             [type |-> type,
              chainId |-> BytesToNat(items[1].b),
              maxPriorityFeePerGas |-> DecodeOptBig(items[2]),
              maxFeePerGas |-> DecodeOptBig(items[3]),
              gas |-> DecodeOptInt(items[4]),
              calls |-> DecodeCalls(items[5]),
              accessList |-> DecodeAccessList(items[6]),
              nonceKey |-> DecodeNonce(items[7]),
              nonce |-> DecodeNonce(items[8]),
              validBefore |-> DecodeOptInt(items[9]),
              validAfter |-> DecodeOptInt(items[10]),
              feeToken |-> DecodeOptBytes(items[11]),
              feePayerSignature |-> DecodeFeePayer(items[12]),
              authorizationList |-> None,
              signature |-> IF n = lengthWithSignature
                              THEN SignatureEnvelopeDeserialize(items[14].b)
                              ELSE NoSignature]
       IN IF assertEnvelope(transaction) # "ok"
            THEN Err(assertEnvelope(transaction), w)
            ELSE Ok(transaction)

\* ---------------------------------------------------------------- TokenId
\* The two builds of TokenId in the repository: the TypeScript source and
\* the compiled dist/ox/TokenId.js.
Builds == {"src", "dist"}

\* The hex digits, lower case and upper case; a hex string is the sequence
\* of its digits after '0x'.
hexLower == <<"0", "1", "2", "3", "4", "5", "6", "7", "8", "9",
              "a", "b", "c", "d", "e", "f">>
hexUpper == <<"0", "1", "2", "3", "4", "5", "6", "7", "8", "9",
              "A", "B", "C", "D", "E", "F">>
IsHexChar(c) == \E v \in 1..16 : c = hexLower[v] \/ c = hexUpper[v]
HexValue(c) == (CHOOSE v \in 1..16 : c = hexLower[v] \/ c = hexUpper[v]) - 1
\* String.prototype.toLowerCase
toLowerCase(h) == [i \in 1..Len(h) |-> hexLower[HexValue(h[i]) + 1]]

\* Hex.toNumber / Hex.toBigInt: the value of a hex string, as its canonical
\* base-16 digits.
HexToDigits(h) == StripZeros([i \in 1..Len(h) |-> HexValue(h[i])])
\* Hex.slice(value, start): the bytes from byte offset start on.
HexSlice(h, start) == SubSeq(h, 2 * start + 1, Len(h))

\* const tip20Prefix = '0x20c0'
tip20Prefix == <<"2", "0", "c", "0">>
\* tip20Prefix.length: the length of the string, '0x' included.
tip20PrefixLength == Len(tip20Prefix) + 2
\* The size given to Hex.fromNumber, in bytes.
tokenIdSize == 18

\* String.prototype.startsWith
startsWith(h, prefix) ==
  Len(h) >= Len(prefix) /\ SubSeq(h, 1, Len(prefix)) = prefix

\* The EIP-55 spellings known to the model (the checksum is a keccak256).
checksumAddress ==
  <<"2", "0", "C", "0">> \o [i \in 1..35 |-> "0"] \o <<"1">>

\* Address.assert: 40 hex digits, all lower case or correctly checksummed.
AddressAssert(h) ==
  /\ Len(h) = 40
  /\ \A i \in 1..Len(h) : IsHexChar(h[i])
  /\ h = toLowerCase(h) \/ h = checksumAddress

\* fromAddress(address): dist lower-cases the address before the prefix
\* test; both slice from byte offset tip20Prefix.length.  The result is a
\* number in src and a bigint in dist; the ids of the model have at most 53
\* significant bits, where the two agree.
fromAddress(b, address) ==
  IF ~startsWith(IF b = "dist" THEN toLowerCase(address) ELSE address, tip20Prefix)
    THEN Err("invalid tip20 address.", address)
    ELSE Ok(HexToDigits(HexSlice(address, tip20PrefixLength)))

\* A token id is a number, given by its base-16 digits, or an address.
NoTokenInput == [kind |-> "none", digits |-> <<>>, address |-> <<>>]
TokenNumber(d) == [kind |-> "number", digits |-> d, address |-> <<>>]
TokenString(a) == [kind |-> "string", digits |-> <<>>, address |-> a]

\* The value of a hex string given to BigInt().
TokenDigits(t) == IF t.kind = "string" THEN HexToDigits(t.address) ELSE t.digits

toAddress_NoPadding(b, tokenId) ==
  IF b = "dist" /\ tokenId.kind = "string"
    THEN IF AddressAssert(tokenId.address) THEN Ok(tokenId.address)
         ELSE Err("InvalidAddress", tokenId.address)
  ELSE IF Len(TokenDigits(tokenId)) > 2 * tokenIdSize
    THEN Err("IntegerOutOfRange", TokenDigits(tokenId))
  ELSE Ok(tip20Prefix
            \o [i \in 1..Len(TokenDigits(tokenId)) |->
                  hexLower[TokenDigits(tokenId)[i] + 1]])

\* toAddress(tokenId): dist returns an address string as it is, after
\* Address.assert; else Hex.concat(tip20Prefix, Hex.fromNumber(tokenId,
\* { size: 18 })), which throws when the number needs more than 18 bytes.
toAddress(b, tokenId) ==
  IF b = "dist" /\ tokenId.kind = "string"
    THEN IF AddressAssert(tokenId.address) THEN Ok(tokenId.address)
         ELSE Err("InvalidAddress", tokenId.address)
  ELSE IF Len(TokenDigits(tokenId)) > 2 * tokenIdSize
    THEN Err("IntegerOutOfRange", TokenDigits(tokenId))
  ELSE Ok(tip20Prefix
            \o [i \in 1..(2 * tokenIdSize) |->
                  hexLower[PadLeft(TokenDigits(tokenId), 2 * tokenIdSize)[i] + 1]])

\* ------------------------------------------------ serializeTransaction
\* The depth at which the engine throws RangeError: Maximum call stack size
\* exceeded.
MaxStack == 3
\* The number of requests sent through one transport.
MaxRequests == 2

\* A transaction of the client: r, s and v are its signature, feePayer is
\* undefined, true or an account.
NoTransaction ==
  [type |-> "eip1559", feeToken |-> None, calls |-> FALSE,
   signature |-> NoSignature, feePayer |-> "undefined",
   feePayerSignature |-> NoFeePayer]

\* isTempoTransaction(transaction); src is the test of serializers.ts.
isTempoTransaction(b, transaction) ==
  IF b = "src"
    THEN transaction.type = "feeToken" \/ IsSome(transaction.feeToken)
    ELSE \/ transaction.type = "feeToken"
         \/ transaction.calls
         \/ transaction.feePayer # "undefined"
         \/ IsSome(transaction.feeToken)

\* const signature_ = transaction.r && transaction.s ? transaction : signature
signature_(transaction, signature) ==
  IF transaction.signature.type # "absent" THEN transaction.signature
  ELSE signature

\* The fields the codec reads of an object.
envelopeOf(transaction) ==
  [type |-> transaction.type, feeToken |-> transaction.feeToken,
   calls |-> transaction.calls, signature |-> transaction.signature,
   feePayerSignature |-> transaction.feePayerSignature]

\* transaction_ox: type 'feeToken', and feePayerSignature the given one,
\* else null when there is a fee payer, else undefined.
transaction_ox(transaction) ==
  [envelopeOf(transaction) EXCEPT
     !.type = "feeToken",
     !.feePayerSignature =
       IF transaction.feePayerSignature.kind = "signature"
         THEN transaction.feePayerSignature
       ELSE IF transaction.feePayer # "undefined" THEN NullFeePayer
       ELSE NoFeePayer]

feePayerSigns_WithoutSignature(transaction, signature) ==
  transaction.feePayer = "account"

\* if (signature_ && typeof transaction.feePayer === 'object')
feePayerSigns(transaction, signature) ==
  /\ signature_(transaction, signature).type # "absent"
  /\ transaction.feePayer = "account"

\* TxFeeToken.from(envelope, { signature })
TxFeeTokenFrom(e, o) ==
  [e EXCEPT !.signature = IF o.signature.type # "absent"
                            THEN o.signature ELSE @]

\* The envelope without its signatures.
TxFeeTokenPresign(e) ==
  [e EXCEPT !.signature = NoSignature, !.feePayerSignature = NoFeePayer]

\* TxFeeToken.getSignPayload(envelope)
TxFeeTokenGetSignPayload(e) ==
  [domain |-> "sign", envelope |-> TxFeeTokenPresign(e), sender |-> None]

\* Secp256k1.recoverAddress({ payload, signature })
recoverAddress(payload, signature) ==
  [payload |-> payload, signature |-> signature]

\* TxFeeToken.getFeePayerSignPayload(envelope, { sender })
TxFeeTokenGetFeePayerSignPayload(e, from) ==
  [domain |-> "feePayer", envelope |-> TxFeeTokenPresign(e),
   sender |-> Some(from)]

\* TxFeeToken.serialize(envelope, { signature, feePayerSignature }): an
\* option that is given replaces the field of the envelope.
TxFeeTokenSerialize(e, o) ==
  [by |-> "codec",
   envelope |-> TxFeeTokenPresign(e),
   signature |-> IF o.signature.type # "absent"
                   THEN o.signature ELSE e.signature,
   feePayerSignature |-> IF o.feePayerSignature.kind # "absent"
                           THEN o.feePayerSignature ELSE e.feePayerSignature]

\* viem's serializeTransaction(transaction, signature)
viem_serializeTransaction(transaction, signature) ==
  [by |-> "base",
   envelope |-> TxFeeTokenPresign(envelopeOf(transaction)),
   signature |-> signature_(transaction, signature),
   feePayerSignature |-> NoFeePayer]

\* The bytes returned once the fee payer has signed.
serializeSponsored(transaction, signature, feePayerSignature) ==
  TxFeeTokenSerialize(
    TxFeeTokenFrom(transaction_ox(transaction),
                   [NoOptions EXCEPT
                      !.signature = signature_(transaction, signature)]),
    [NoOptions EXCEPT !.feePayerSignature = feePayerSignature])

\* The bytes returned when the fee payer is not asked to sign.
serializeUnsponsored(transaction, signature) ==
  TxFeeTokenSerialize(
    transaction_ox(transaction),
    [NoOptions EXCEPT
       !.feePayerSignature = IF transaction.feePayer = "true"
                               THEN NullFeePayer ELSE NoFeePayer,
       !.signature = signature])

\* -------------------------------------------------------------- withRelay
\* export const methods = ['eth_sendRawTransaction']
methods == {"eth_sendRawTransaction"}

routesToRelay_EveryMethod(method) == method = method

\* withRelay.methods.includes(method)
routesToRelay(method) == method \in methods

NoRequest == [method |-> "", params |-> <<>>, options |-> None]

\* What a transport was asked and what it answered.
Delivery(rq, outcome) ==
  [method |-> rq.method, params |-> rq.params, options |-> rq.options,
   outcome |-> outcome]

\* ---------------------------------------------------------------- inputs
CallEmpty == [to |-> None, value |-> None, data |-> None]
CallTo == [to |-> Some(AddrTo), value |-> None, data |-> None]
CallZero == [to |-> Some(AddrTo), value |-> Some(0), data |-> Some(<<>>)]
CallFull == [to |-> Some(AddrTo2), value |-> Some(2000), data |-> Some(<<18, 52>>)]
CallBad == [to |-> Some(badAddress), value |-> None, data |-> None]

RECURSIVE SeqsUpTo(_, _)
\* The non-empty sequences over S of length at most n.
SeqsUpTo(S, n) ==
  IF n = 0 THEN {}
  ELSE {<<x>> : x \in S}
         \cup {Append(q, x) : q \in SeqsUpTo(S, n - 1), x \in S}

CallSeqs == SeqsUpTo({CallEmpty, CallZero, CallFull}, MaxCalls)
Nats == 0..MaxNat

AccessEntry == [address |-> TokenA, storageKeys |-> <<PadLeft(<<1>>, 32)>>]
AccessLists == {None, Some(<<>>), Some(<<AccessEntry>>)}
FeeTokens == {None, Some(TokenA), Some(TokenB)}
Signatures ==
  {NoSignature, Secp256k1Envelope(1, 2, 0), Secp256k1Envelope(258, 1, 1),
   P256Envelope(1, 2, 3, TRUE)}

\* The signatures handed to SignatureEnvelope.from.
SignatureInputs ==
  [shape : {"bare"}, r : {1}, s : {2}, yParity : {Some(0), Some(1)},
   publicKey : {None}, prehash : {None}]
    \cup [shape : {"explicit"}, r : {1}, s : {2}, yParity : {Some(0), Some(1)},
          publicKey : {None}, prehash : {None}]
    \cup [shape : {"explicit"}, r : {1}, s : {2}, yParity : {None, Some(0), Some(1)},
          publicKey : {Some(3)}, prehash : {None, Some(FALSE), Some(TRUE)}]
FeePayers == {NoFeePayer, NullFeePayer, FeePayerTuple(1, 2, 0), FeePayerTuple(0, 1, 1)}
Senders == {Sender1, Sender2}
FeesValid == {None, Some(<<>>), Some(<<10>>), Some(maxUint256)}
FeesAny == {None, Some(<<10>>), Some(<<20>>), Some(maxUint256), Some(overUint256)}

\* { chainId: 1, calls: [{ to }], nonce: 785n, nonceKey: 0n }
BaseDraft ==
  [type |-> "absent", chainId |-> 1,
   maxPriorityFeePerGas |-> None, maxFeePerGas |-> None, gas |-> None,
   calls |-> Some(<<CallTo>>), accessList |-> None,
   nonceKey |-> Some(0), nonce |-> Some(785),
   validBefore |-> None, validAfter |-> None, feeToken |-> None,
   feePayerSignature |-> NoFeePayer, authorizationList |-> None,
   signature |-> NoSignature]

\* Drafts that differ in their integer fields.
ScalarDrafts ==
  { [BaseDraft EXCEPT !.gas = g, !.nonce = n, !.nonceKey = k,
                      !.validBefore = vb, !.validAfter = va] :
      g \in Opt(Nats), n \in Opt(Nats), k \in Opt(Nats),
      vb \in Opt(Nats), va \in Opt(Nats) }

\* Drafts that differ in their calls, lists, fee token and fees.
StructureDrafts ==
  { [BaseDraft EXCEPT !.calls = Some(c), !.accessList = al, !.feeToken = ft,
                      !.maxFeePerGas = mf, !.maxPriorityFeePerGas = mp] :
      c \in CallSeqs, al \in AccessLists, ft \in FeeTokens,
      mf \in FeesValid, mp \in {None, Some(<<10>>)} }

\* Drafts that differ in their signature and fee-payer field.
SignedDrafts ==
  { [BaseDraft EXCEPT !.signature = sg, !.feePayerSignature = fp,
                      !.feeToken = ft, !.nonceKey = k] :
      sg \in Signatures, fp \in FeePayers, ft \in FeeTokens, k \in Opt(Nats) }

\* Drafts that violate any number of assert's invariants.
InvalidDrafts ==
  { [BaseDraft EXCEPT !.calls = c, !.validBefore = vb, !.validAfter = va,
                      !.maxFeePerGas = mf, !.maxPriorityFeePerGas = mp,
                      !.chainId = ci] :
      c \in {None, Some(<<>>), Some(<<CallTo>>), Some(<<CallBad>>),
             Some(<<CallTo, CallBad>>)},
      vb \in Opt(Nats), va \in Opt(Nats),
      mf \in FeesAny, mp \in FeesAny, ci \in 0..1 }

Drafts == ScalarDrafts \cup StructureDrafts \cup SignedDrafts \cup InvalidDrafts

\* Ways of damaging a serialized transaction before it is decoded.
Tampers ==
  [kind : {"truncate"}, n : 0..12]
    \cup [kind : {"extend"}, n : 0..MaxExtra]
    \cup [kind : {"emptyCalls", "emptyCallsWindow", "emptyCallsChainId"}, n : {0}]
    \cup [kind : {"feePayerEmpty"}, n : {0}]
    \cup [kind : {"feePayerAddress"}, n : {102, 103}]
    \cup [kind : {"feePayerTuple"}, n : 0..1]

\* Extra trailing fields: r, s, yParity, r, s, ...
ExtraField(i) == IF i % 3 = 0 THEN Str(<<1>>) ELSE Str(<<18, 51 + i>>)

ApplyTamper(w, t) ==
  [w EXCEPT !.items =
     CASE t.kind = "truncate" -> SubSeq(@, 1, t.n)
       [] t.kind = "extend" -> @ \o [i \in 1..t.n |-> ExtraField(i)]
       [] t.kind = "emptyCalls" -> [@ EXCEPT ![5] = Lst(<<>>)]
       [] t.kind = "emptyCallsWindow" ->
            [@ EXCEPT ![5] = Lst(<<>>), ![9] = Str(<<1>>), ![10] = Str(<<1>>)]
       [] t.kind = "feePayerEmpty" -> [@ EXCEPT ![12] = EmptyStr]
       [] t.kind = "feePayerAddress" -> [@ EXCEPT ![12] = Str(Address(t.n))]
       [] t.kind = "feePayerTuple" ->
            [@ EXCEPT ![12] = Lst(<<Str(<<t.n>>), Str(<<1>>), Str(<<2>>)>>)]
       [] OTHER -> [@ EXCEPT ![5] = Lst(<<>>), ![1] = Str(<<0>>)]]

\* The options serialize is called with: a fee-payer signature, a sender, the
\* fee payer format with its sender, or a signature.
SerializeOptions ==
  {[NoOptions EXCEPT !.feePayerSignature = f] :
     f \in {NoFeePayer, NullFeePayer, FeePayerTuple(1, 2, 0)}}
    \cup {[NoOptions EXCEPT !.sender = Some(a)] : a \in Senders}
    \cup {[NoOptions EXCEPT !.sender = Some(Sender1),
                            !.feePayerSignature = FeePayerTuple(1, 2, 0)],
          [NoOptions EXCEPT !.sender = Some(Sender1), !.format = "feePayer"],
          [NoOptions EXCEPT !.signature = Secp256k1Envelope(1, 2, 0)],
          [NoOptions EXCEPT !.signature = P256Envelope(1, 2, 3, FALSE)]}

\* The options from is called with: a signature, a fee-payer signature or
\* null for the fee payer.
FromOptions ==
  {[NoOptions EXCEPT !.signature = sg, !.feePayerSignature = fp] :
     sg \in {NoSignature, Secp256k1Envelope(0, 1, 0)},
     fp \in {NoFeePayer, NullFeePayer, FeePayerTuple(0, 1, 0)}}

\* Token ids: 0, 1, 0xdef, 2^104, 2^112, 2^140 and, too large, 2^144.
TokenIdDigits ==
  {<<>>, <<1>>, <<13, 14, 15>>, <<1>> \o Zeros(26), <<1>> \o Zeros(28),
   <<1, 0, 0, 0, 0, 0, 0, 2>> \o Zeros(21), <<1>> \o Zeros(35),
   <<1>> \o Zeros(36)}

\* Addresses given to fromAddress and toAddress: token addresses in lower
\* case, a checksummed one, one with digits in the upper bytes, addresses
\* of accounts, and a string that is too short.
TokenAddresses ==
  {tip20Prefix \o [i \in 1..35 |-> "0"] \o <<d>> : d \in {"0", "1", "f"}}
    \cup {checksumAddress,
          tip20Prefix \o <<"0", "0", "0", "1">> \o [i \in 1..32 |-> "0"],
          <<"7", "0", "9", "9">> \o [i \in 1..36 |-> "0"],
          <<"2", "0", "c", "1">> \o [i \in 1..36 |-> "0"],
          <<"2", "0", "c">>}

TokenInputs ==
  {TokenNumber(d) : d \in TokenIdDigits}
    \cup {TokenString(a) : a \in TokenAddresses}

\* Transactions given to serializeTransaction.
Transactions ==
  [type : {"feeToken", "eip1559"},
   feeToken : {None, Some(TokenA)},
   calls : BOOLEAN,
   signature : {NoSignature, Secp256k1Envelope(1, 2, 0)},
   feePayer : {"undefined", "true", "account"},
   feePayerSignature : {NoFeePayer, FeePayerTuple(3, 4, 1)}]

\* The signature argument of serializeTransaction.
PrimarySignatures == {NoSignature, Secp256k1Envelope(5, 6, 1)}

\* What the fee payer's account answers to sign({ hash }).
FeePayerSignatures == {FeePayerTuple(7, 8, 0), FeePayerTuple(9, 10, 1)}

\* Requests of the client and the answers of the two transports.
Requests ==
  [method : {"eth_sendRawTransaction", "eth_sendTransaction", "eth_call",
             "eth_getTransactionReceipt"},
   params : {<<>>, <<"0x77">>},
   options : {None, Some("dedupe")}]
RelayOutcomes == {Ok(<<"relay result">>), Err("relay error", <<>>)}
DefaultOutcomes == {Ok(<<"default result">>), Err("default error", <<>>)}

\* ---------------------------------------------------------------- state
VARIABLES pc, draft, asserted, envelope, serialized, deserialized,
          signPayload, sender, feePayerPayload, tamper, raw, rawResult,
          validated, options, serializedWith, deserializedWith, hashed,
          hashedPresign, fromAgain, fromOptions, envelopeWith,
          signatureInput, signatureEnvelope, build, tokenInput,
          tokenAddress, addressInput, tokenId, transaction,
          signatureArg, callDepth, signCalls, chainSerialized, request,
          relayLog, defaultLog, response

vars == <<pc, draft, asserted, envelope, serialized, deserialized,
          signPayload, sender, feePayerPayload, tamper, raw, rawResult,
          validated, options, serializedWith, deserializedWith, hashed,
          hashedPresign, fromAgain, fromOptions, envelopeWith,
          signatureInput, signatureEnvelope, build, tokenInput,
          tokenAddress, addressInput, tokenId, transaction, signatureArg,
          callDepth, signCalls, chainSerialized, request, relayLog,
          defaultLog, response>>

NoWire == [type |-> 0, items |-> <<>>]
NoTamper == [kind |-> "none", n |-> 0]

Init ==
  /\ \/ pc = "draft" /\ draft \in Drafts /\ build = "src"
     \/ pc = "token" /\ draft = BaseDraft /\ build \in Builds
     \/ pc = "chain" /\ draft = BaseDraft /\ build \in Builds
     \/ pc = "transport" /\ draft = BaseDraft /\ build = "src"
  /\ asserted = "none"
  /\ envelope = NotRun
  /\ serialized = NoWire
  /\ deserialized = NotRun
  /\ signPayload = <<>>
  /\ sender = None
  /\ feePayerPayload = <<>>
  /\ tamper = NoTamper
  /\ raw = NoWire
  /\ rawResult = NotRun
  /\ validated = None
  /\ options = NoOptions
  /\ serializedWith = NoWire
  /\ deserializedWith = NotRun
  /\ hashed = <<>>
  /\ hashedPresign = <<>>
  /\ fromAgain = NotRun
  /\ fromOptions = NoOptions
  /\ envelopeWith = NotRun
  /\ signatureInput = NoSignatureInput
  /\ signatureEnvelope = NoSignature
  /\ tokenInput = NoTokenInput
  /\ tokenAddress = NotRun
  /\ addressInput = <<>>
  /\ tokenId = NotRun
  /\ transaction = NoTransaction
  /\ signatureArg = NoSignature
  /\ callDepth = 0
  /\ signCalls = <<>>
  /\ chainSerialized = NotRun
  /\ request = NoRequest
  /\ relayLog = <<>>
  /\ defaultLog = <<>>
  /\ response = NotRun

\* TransactionEnvelopeAA.assert(draft)
AssertDraft ==
  /\ pc = "draft"
  /\ asserted' = assertEnvelope(draft)
  /\ pc' = "asserted"
  /\ UNCHANGED <<draft, envelope, serialized, deserialized, signPayload,
                 sender, feePayerPayload, tamper, raw, rawResult,
                 validated, options, serializedWith, deserializedWith,
                 hashed, hashedPresign, fromAgain, fromOptions,
                 envelopeWith, signatureInput, signatureEnvelope, build,
                 tokenInput, tokenAddress, addressInput, tokenId,
                 transaction, signatureArg, callDepth, signCalls,
                 chainSerialized, request, relayLog, defaultLog, response>>

\* TransactionEnvelopeAA.validate(draft)
Validate ==
  /\ pc = "asserted"
  /\ validated' = Some(validate(draft))
  /\ pc' = "validated"
  /\ UNCHANGED <<draft, asserted, envelope, serialized, deserialized,
                 signPayload, sender, feePayerPayload, tamper, raw, rawResult,
                 options, serializedWith, deserializedWith, hashed,
                 hashedPresign, fromAgain, fromOptions, envelopeWith,
                 signatureInput, signatureEnvelope, build, tokenInput,
                 tokenAddress, addressInput, tokenId, transaction,
                 signatureArg, callDepth, signCalls, chainSerialized,
                 request, relayLog, defaultLog, response>>

\* TransactionEnvelopeAA.from(draft)
From ==
  /\ pc = "asserted"
  /\ envelope' = fromDraft(draft, NoOptions)
  /\ pc' = IF envelope'.status = "ok" THEN "envelope" ELSE "rejected"
  /\ UNCHANGED <<draft, asserted, serialized, deserialized, signPayload,
                 sender, feePayerPayload, tamper, raw, rawResult,
                 validated, options, serializedWith, deserializedWith,
                 hashed, hashedPresign, fromAgain, fromOptions,
                 envelopeWith, signatureInput, signatureEnvelope, build,
                 tokenInput, tokenAddress, addressInput, tokenId,
                 transaction, signatureArg, callDepth, signCalls,
                 chainSerialized, request, relayLog, defaultLog, response>>

\* TransactionEnvelopeAA.serialize(envelope)
Serialize ==
  /\ pc = "envelope"
  /\ serialized' = serialize(envelope.value, NoOptions)
  /\ pc' = "serialized"
  /\ UNCHANGED <<draft, asserted, envelope, deserialized, signPayload,
                 sender, feePayerPayload, tamper, raw, rawResult,
                 validated, options, serializedWith, deserializedWith,
                 hashed, hashedPresign, fromAgain, fromOptions,
                 envelopeWith, signatureInput, signatureEnvelope, build,
                 tokenInput, tokenAddress, addressInput, tokenId,
                 transaction, signatureArg, callDepth, signCalls,
                 chainSerialized, request, relayLog, defaultLog, response>>

\* TransactionEnvelopeAA.deserialize(serialized)
Deserialize ==
  /\ pc = "serialized"
  /\ deserialized' = deserialize(serialized)
  /\ pc' = "deserialized"
  /\ UNCHANGED <<draft, asserted, envelope, serialized, signPayload,
                 sender, feePayerPayload, tamper, raw, rawResult,
                 validated, options, serializedWith, deserializedWith,
                 hashed, hashedPresign, fromAgain, fromOptions,
                 envelopeWith, signatureInput, signatureEnvelope, build,
                 tokenInput, tokenAddress, addressInput, tokenId,
                 transaction, signatureArg, callDepth, signCalls,
                 chainSerialized, request, relayLog, defaultLog, response>>

\* TransactionEnvelopeAA.getSignPayload(envelope)
GetSignPayload ==
  /\ pc = "deserialized"
  /\ signPayload' = getSignPayload(envelope.value)
  /\ pc' = "signPayload"
  /\ envelope' = [envelope EXCEPT !.value = argumentAfter(@, NoOptions)]
  /\ UNCHANGED <<draft, asserted, serialized, deserialized,
                 sender, feePayerPayload, tamper, raw, rawResult,
                 validated, options, serializedWith, deserializedWith,
                 hashed, hashedPresign, fromAgain, fromOptions,
                 envelopeWith, signatureInput, signatureEnvelope, build,
                 tokenInput, tokenAddress, addressInput, tokenId,
                 transaction, signatureArg, callDepth, signCalls,
                 chainSerialized, request, relayLog, defaultLog, response>>

\* TransactionEnvelopeAA.getFeePayerSignPayload(envelope, { sender })
GetFeePayerSignPayload ==
  /\ pc = "signPayload"
  /\ \E a \in Senders :
       /\ sender' = Some(a)
       /\ feePayerPayload' = getFeePayerSignPayload(envelope.value, a)
  /\ pc' = "feePayerPayload"
  /\ envelope' = [envelope EXCEPT !.value = argumentAfter(@, NoOptions)]
  /\ UNCHANGED <<draft, asserted, serialized, deserialized,
                 signPayload, tamper, raw, rawResult, validated, options,
                 serializedWith, deserializedWith, hashed, hashedPresign,
                 fromAgain, fromOptions, envelopeWith, signatureInput,
                 signatureEnvelope, build, tokenInput, tokenAddress,
                 addressInput, tokenId, transaction, signatureArg,
                 callDepth, signCalls, chainSerialized, request, relayLog,
                 defaultLog, response>>

\* TransactionEnvelopeAA.serialize(envelope, options)
SerializeWith ==
  /\ pc = "signPayload"
  /\ \E o \in SerializeOptions :
       /\ options' = o
       /\ serializedWith' = serialize(envelope.value, o)
  /\ pc' = "serializedWith"
  /\ envelope' = [envelope EXCEPT !.value = argumentAfter(@, options')]
  /\ UNCHANGED <<draft, asserted, serialized, deserialized,
                 signPayload, sender, feePayerPayload, tamper, raw, rawResult,
                 validated, deserializedWith, hashed, hashedPresign,
                 fromAgain, fromOptions, envelopeWith, signatureInput,
                 signatureEnvelope, build, tokenInput, tokenAddress,
                 addressInput, tokenId, transaction, signatureArg,
                 callDepth, signCalls, chainSerialized, request, relayLog,
                 defaultLog, response>>

\* TransactionEnvelopeAA.deserialize(serialize(envelope, options))
DeserializeWith ==
  /\ pc = "serializedWith"
  /\ deserializedWith' = deserialize(serializedWith)
  /\ pc' = "deserializedWith"
  /\ UNCHANGED <<draft, asserted, envelope, serialized, deserialized,
                 signPayload, sender, feePayerPayload, tamper, raw, rawResult,
                 validated, options, serializedWith, hashed,
                 hashedPresign, fromAgain, fromOptions, envelopeWith,
                 signatureInput, signatureEnvelope, build, tokenInput,
                 tokenAddress, addressInput, tokenId, transaction,
                 signatureArg, callDepth, signCalls, chainSerialized,
                 request, relayLog, defaultLog, response>>

\* TransactionEnvelopeAA.hash(envelope, { presign: true })
HashPresign ==
  /\ pc = "signPayload"
  /\ hashedPresign' = hash(envelope.value, [NoOptions EXCEPT !.presign = TRUE])
  /\ pc' = "hashedPresign"
  /\ envelope' = [envelope EXCEPT !.value = argumentAfter(@, NoOptions)]
  /\ UNCHANGED <<draft, asserted, serialized, deserialized,
                 signPayload, sender, feePayerPayload, tamper, raw, rawResult,
                 validated, options, serializedWith, deserializedWith, hashed,
                 fromAgain, fromOptions, envelopeWith, signatureInput,
                 signatureEnvelope, build, tokenInput, tokenAddress,
                 addressInput, tokenId, transaction, signatureArg,
                 callDepth, signCalls, chainSerialized, request, relayLog,
                 defaultLog, response>>

\* TransactionEnvelopeAA.hash(envelope)
Hash ==
  /\ pc = "hashedPresign"
  /\ hashed' = hash(envelope.value, NoOptions)
  /\ pc' = "hashed"
  /\ envelope' = [envelope EXCEPT !.value = argumentAfter(@, NoOptions)]
  /\ UNCHANGED <<draft, asserted, serialized, deserialized,
                 signPayload, sender, feePayerPayload, tamper, raw, rawResult,
                 validated, options, serializedWith, deserializedWith,
                 hashedPresign, fromAgain, fromOptions, envelopeWith,
                 signatureInput, signatureEnvelope, build, tokenInput,
                 tokenAddress, addressInput, tokenId, transaction,
                 signatureArg, callDepth, signCalls, chainSerialized,
                 request, relayLog, defaultLog, response>>

\* TransactionEnvelopeAA.from(envelope), the envelope being from's own result
FromAgain ==
  /\ pc = "signPayload"
  /\ fromAgain' = fromDraft(envelope.value, NoOptions)
  /\ pc' = "fromAgain"
  /\ UNCHANGED <<draft, asserted, envelope, serialized, deserialized,
                 signPayload, sender, feePayerPayload, tamper, raw, rawResult,
                 validated, options, serializedWith, deserializedWith, hashed,
                 hashedPresign, fromOptions, envelopeWith, signatureInput,
                 signatureEnvelope, build, tokenInput, tokenAddress,
                 addressInput, tokenId, transaction, signatureArg,
                 callDepth, signCalls, chainSerialized, request, relayLog,
                 defaultLog, response>>

\* TransactionEnvelopeAA.from(draft, options)
FromWith ==
  /\ pc = "signPayload"
  /\ \E o \in FromOptions :
       /\ fromOptions' = o
       /\ envelopeWith' = fromDraft(draft, o)
  /\ pc' = "envelopeWith"
  /\ draft' = argumentAfter(draft, fromOptions')
  /\ UNCHANGED <<asserted, envelope, serialized, deserialized,
                 signPayload, sender, feePayerPayload, tamper, raw,
                 rawResult, validated, options, serializedWith,
                 deserializedWith, hashed, hashedPresign, fromAgain,
                 signatureInput, signatureEnvelope, build, tokenInput,
                 tokenAddress, addressInput, tokenId, transaction,
                 signatureArg, callDepth, signCalls, chainSerialized,
                 request, relayLog, defaultLog, response>>

\* SignatureEnvelope.from(signature), the signature being that of a signer
FromSignature ==
  /\ pc = "signPayload"
  /\ \E i \in SignatureInputs :
       /\ signatureInput' = i
       /\ signatureEnvelope' = SignatureEnvelopeFrom(i)
  /\ pc' = "signatureEnvelope"
  /\ UNCHANGED <<draft, asserted, envelope, serialized, deserialized,
                 signPayload, sender, feePayerPayload, tamper, raw,
                 rawResult, validated, options, serializedWith,
                 deserializedWith, hashed, hashedPresign, fromAgain,
                 fromOptions, envelopeWith, build, tokenInput,
                 tokenAddress, addressInput, tokenId, transaction,
                 signatureArg, callDepth, signCalls, chainSerialized,
                 request, relayLog, defaultLog, response>>

\* TokenId.toAddress(tokenId)
ToAddress ==
  /\ pc = "token"
  /\ \E t \in TokenInputs :
       /\ tokenInput' = t
       /\ tokenAddress' = toAddress(build, t)
  /\ pc' = "tokenAddress"
  /\ UNCHANGED <<draft, asserted, envelope, serialized, deserialized,
                 signPayload, sender, feePayerPayload, tamper, raw,
                 rawResult, validated, options, serializedWith,
                 deserializedWith, hashed, hashedPresign, fromAgain,
                 fromOptions, envelopeWith, signatureInput,
                 signatureEnvelope, build, addressInput, tokenId,
                 transaction, signatureArg, callDepth, signCalls,
                 chainSerialized, request, relayLog, defaultLog, response>>

\* TokenId.fromAddress(TokenId.toAddress(tokenId))
FromToAddress ==
  /\ pc = "tokenAddress"
  /\ tokenAddress.status = "ok"
  /\ addressInput' = tokenAddress.value
  /\ tokenId' = fromAddress(build, tokenAddress.value)
  /\ pc' = "tokenId"
  /\ UNCHANGED <<draft, asserted, envelope, serialized, deserialized,
                 signPayload, sender, feePayerPayload, tamper, raw,
                 rawResult, validated, options, serializedWith,
                 deserializedWith, hashed, hashedPresign, fromAgain,
                 fromOptions, envelopeWith, signatureInput,
                 signatureEnvelope, build, tokenInput, tokenAddress,
                 transaction, signatureArg, callDepth, signCalls,
                 chainSerialized, request, relayLog, defaultLog, response>>

\* TokenId.fromAddress(address)
FromAddress ==
  /\ pc = "token"
  /\ \E a \in TokenAddresses :
       /\ addressInput' = a
       /\ tokenId' = fromAddress(build, a)
  /\ pc' = "tokenId"
  /\ UNCHANGED <<draft, asserted, envelope, serialized, deserialized,
                 signPayload, sender, feePayerPayload, tamper, raw,
                 rawResult, validated, options, serializedWith,
                 deserializedWith, hashed, hashedPresign, fromAgain,
                 fromOptions, envelopeWith, signatureInput,
                 signatureEnvelope, build, tokenInput, tokenAddress,
                 transaction, signatureArg, callDepth, signCalls,
                 chainSerialized, request, relayLog, defaultLog, response>>

\* The serialized bytes are damaged on their way to the decoder.
Tamper ==
  /\ pc = "signPayload"
  /\ \E t \in Tampers :
       /\ tamper' = t
       /\ raw' = ApplyTamper(serialized, t)
  /\ pc' = "tampered"
  /\ UNCHANGED <<draft, asserted, envelope, serialized, deserialized,
                 signPayload, sender, feePayerPayload, rawResult,
                 validated, options, serializedWith, deserializedWith,
                 hashed, hashedPresign, fromAgain, fromOptions,
                 envelopeWith, signatureInput, signatureEnvelope, build,
                 tokenInput, tokenAddress, addressInput, tokenId,
                 transaction, signatureArg, callDepth, signCalls,
                 chainSerialized, request, relayLog, defaultLog, response>>

\* TransactionEnvelopeAA.deserialize(raw)
DeserializeRaw ==
  /\ pc = "tampered"
  /\ rawResult' = deserialize(raw)
  /\ pc' = "decoded"
  /\ UNCHANGED <<draft, asserted, envelope, serialized, deserialized,
                 signPayload, sender, feePayerPayload, tamper, raw,
                 validated, options, serializedWith, deserializedWith,
                 hashed, hashedPresign, fromAgain, fromOptions,
                 envelopeWith, signatureInput, signatureEnvelope, build,
                 tokenInput, tokenAddress, addressInput, tokenId,
                 transaction, signatureArg, callDepth, signCalls,
                 chainSerialized, request, relayLog, defaultLog, response>>

\* serializeTransaction(transaction, signature) of the compiled build, up
\* to its return or to the call of the fee payer's sign, which it awaits.
SerializeTransaction ==
  /\ pc = "chain"
  /\ build = "dist"
  /\ \E t \in Transactions, sg \in PrimarySignatures :
       /\ transaction' = t
       /\ signatureArg' = sg
       /\ IF ~isTempoTransaction(build, t)
            THEN /\ chainSerialized' = Ok(viem_serializeTransaction(t, sg))
                 /\ signCalls' = signCalls
                 /\ pc' = "chainDone"
          ELSE IF feePayerSigns(t, sg)
            THEN /\ chainSerialized' = NotRun
                 /\ LET tx == TxFeeTokenFrom(
                                 transaction_ox(t),
                                 [NoOptions EXCEPT
                                    !.signature = signature_(t, sg)])
                        from == recoverAddress(TxFeeTokenGetSignPayload(tx),
                                               signature_(t, sg))
                        payload == TxFeeTokenGetFeePayerSignPayload(tx, from)
                    IN signCalls' = Append(signCalls, payload)
                 /\ pc' = "awaitSign"
          ELSE /\ chainSerialized' = Ok(serializeUnsponsored(t, sg))
               /\ signCalls' = signCalls
               /\ pc' = "chainDone"
  /\ callDepth' = 1
  /\ UNCHANGED <<draft, asserted, envelope, serialized, deserialized,
                 signPayload, sender, feePayerPayload, tamper, raw,
                 rawResult, validated, options, serializedWith,
                 deserializedWith, hashed, hashedPresign, fromAgain,
                 fromOptions, envelopeWith, signatureInput,
                 signatureEnvelope, build, tokenInput, tokenAddress,
                 addressInput, tokenId, request, relayLog, defaultLog,
                 response>>

\* The fee payer's sign settles: its signature goes into the returned
\* bytes, its rejection is the rejection of serializeTransaction.
FeePayerSignSettles ==
  /\ pc = "awaitSign"
  /\ \/ \E fp \in FeePayerSignatures :
          chainSerialized'
            = Ok(serializeSponsored(transaction, signatureArg, fp))
     \/ chainSerialized' = Err("sign rejected", <<>>)
  /\ pc' = "chainDone"
  /\ UNCHANGED <<draft, asserted, envelope, serialized, deserialized,
                 signPayload, sender, feePayerPayload, tamper, raw,
                 rawResult, validated, options, serializedWith,
                 deserializedWith, hashed, hashedPresign, fromAgain,
                 fromOptions, envelopeWith, signatureInput,
                 signatureEnvelope, build, tokenInput, tokenAddress,
                 addressInput, tokenId, transaction, signatureArg,
                 callDepth, signCalls, request, relayLog, defaultLog,
                 response>>

\* One call of serializeTransaction of serializers.ts at the given depth:
\* the codec for a fee token transaction, else the call of line 15, which
\* is a call of serializeTransaction itself.
SerializersFrame(t, sg, depth) ==
  IF isTempoTransaction(build, t)
    THEN /\ chainSerialized'
              = Ok(TxFeeTokenSerialize(envelopeOf(t),
                                       [NoOptions EXCEPT !.signature = sg]))
         /\ callDepth' = depth
         /\ pc' = "chainDone"
  ELSE IF depth >= MaxStack
    THEN /\ chainSerialized'
              = Err("RangeError: Maximum call stack size exceeded", <<>>)
         /\ callDepth' = depth
         /\ pc' = "chainDone"
  ELSE /\ chainSerialized' = NotRun
       /\ callDepth' = depth
       /\ pc' = "reenter"

\* serializeTransaction(transaction, signature) of serializers.ts
SerializersCall ==
  /\ pc = "chain"
  /\ build = "src"
  /\ \E t \in Transactions, sg \in PrimarySignatures :
       /\ transaction' = t
       /\ signatureArg' = sg
       /\ SerializersFrame(t, sg, 1)
  /\ UNCHANGED <<draft, asserted, envelope, serialized, deserialized,
                 signPayload, sender, feePayerPayload, tamper, raw,
                 rawResult, validated, options, serializedWith,
                 deserializedWith, hashed, hashedPresign, fromAgain,
                 fromOptions, envelopeWith, signatureInput,
                 signatureEnvelope, build, tokenInput, tokenAddress,
                 addressInput, tokenId, signCalls, request, relayLog,
                 defaultLog, response>>

\* return serializeTransaction(transaction, signature)
SerializersReenter ==
  /\ pc = "reenter"
  /\ SerializersFrame(transaction, signatureArg, callDepth + 1)
  /\ UNCHANGED <<draft, asserted, envelope, serialized, deserialized,
                 signPayload, sender, feePayerPayload, tamper, raw,
                 rawResult, validated, options, serializedWith,
                 deserializedWith, hashed, hashedPresign, fromAgain,
                 fromOptions, envelopeWith, signatureInput,
                 signatureEnvelope, build, tokenInput, tokenAddress,
                 addressInput, tokenId, transaction, signatureArg,
                 signCalls, request, relayLog, defaultLog, response>>

\* request({ method, params }, options) of the transport of withRelay
Request ==
  /\ pc = "transport"
  /\ Len(relayLog) + Len(defaultLog) < MaxRequests
  /\ \E rq \in Requests :
       /\ request' = rq
       /\ IF routesToRelay(rq.method)
            THEN \E outcome \in RelayOutcomes :
                   /\ relayLog' = Append(relayLog, Delivery(rq, outcome))
                   /\ defaultLog' = defaultLog
                   /\ response' = outcome
            ELSE \E outcome \in DefaultOutcomes :
                   /\ defaultLog' = Append(defaultLog, Delivery(rq, outcome))
                   /\ relayLog' = relayLog
                   /\ response' = outcome
  /\ pc' = "transport"
  /\ UNCHANGED <<draft, asserted, envelope, serialized, deserialized,
                 signPayload, sender, feePayerPayload, tamper, raw,
                 rawResult, validated, options, serializedWith,
                 deserializedWith, hashed, hashedPresign, fromAgain,
                 fromOptions, envelopeWith, signatureInput,
                 signatureEnvelope, build, tokenInput, tokenAddress,
                 addressInput, tokenId, transaction, signatureArg,
                 callDepth, signCalls, chainSerialized>>

Next ==
  \/ AssertDraft
  \/ Validate
  \/ From
  \/ Serialize
  \/ Deserialize
  \/ GetSignPayload
  \/ GetFeePayerSignPayload
  \/ FromAgain
  \/ FromWith
  \/ FromSignature
  \/ ToAddress
  \/ FromToAddress
  \/ FromAddress
  \/ HashPresign
  \/ Hash
  \/ SerializeWith
  \/ DeserializeWith
  \/ Tamper
  \/ DeserializeRaw
  \/ SerializeTransaction
  \/ FeePayerSignSettles
  \/ SerializersCall
  \/ SerializersReenter
  \/ Request

Spec == Init /\ [][Next]_vars

\* ================================================================ claims

\* An optional integer that is omitted or not zero.
OmittedOrNonZero(o) == IsNone(o) \/ Get(o) # 0
\* An optional byte string, digit string or list that is omitted or not empty.
OmittedOrNonEmpty(o) == IsNone(o) \/ Len(Get(o)) > 0

\* An envelope whose every field survives the wire as it is: nonce and
\* nonceKey present, no other integer field present with value 0, no call
\* data and no access list present but empty.
Canonical(e) ==
  /\ IsSome(e.nonce) /\ IsSome(e.nonceKey)
  /\ OmittedOrNonZero(e.gas)
  /\ OmittedOrNonZero(e.validBefore) /\ OmittedOrNonZero(e.validAfter)
  /\ OmittedOrNonEmpty(e.maxFeePerGas)
  /\ OmittedOrNonEmpty(e.maxPriorityFeePerGas)
  /\ OmittedOrNonEmpty(e.accessList)
  /\ \A i \in 1..Len(Get(e.calls)) :
       /\ OmittedOrNonZero(Get(e.calls)[i].value)
       /\ OmittedOrNonEmpty(Get(e.calls)[i].data)

\* C1 (as stated): for every valid draft d, deserialize(serialize(from(d)))
\* equals from(d) field for field, whichever optional fields are present,
\* zero or omitted.
C1_RoundTripAnyDraft ==
  deserialized.status # "none" => deserialized = Ok(envelope.value)

\* C1 (amended): for every valid draft d in which nonce and nonceKey are
\* present, every other optional integer field is omitted or non-zero, and
\* call data and accessList are omitted or non-empty,
\* deserialize(serialize(from(d))) equals from(d) field for field.
C1_RoundTripCanonical ==
  (deserialized.status # "none" /\ Canonical(envelope.value))
    => deserialized = Ok(envelope.value)

C1_Witness ==
  /\ deserialized.status = "ok"
  /\ Canonical(envelope.value)
  /\ deserialized.value = envelope.value
  /\ IsSome(envelope.value.gas)
  /\ IsSome(envelope.value.validBefore)
  /\ IsSome(envelope.value.validAfter)

\* C2: getSignPayload does not depend on the signature nor on the fee-payer
\* field: envelopes that differ only in signature and feePayerSignature
\* (absent, null or a tuple) have the same sign payload.
C2_SignPayloadIgnoresSignatures ==
  signPayload # <<>> =>
    \A sg \in Signatures, fp \in FeePayers :
      getSignPayload([envelope.value EXCEPT !.signature = sg,
                                            !.feePayerSignature = fp])
        = signPayload

C2_Witness ==
  /\ signPayload # <<>>
  /\ envelope.value.signature.type = "secp256k1"
  /\ envelope.value.feePayerSignature.kind = "signature"
  /\ Len(serialized.items) = lengthWithSignature
  /\ Len(signPayload[2].items) = lengthWithoutSignature

\* C3: getFeePayerSignPayload binds the sender and the fee token: another
\* sender, or another feeToken (absent included), gives another hash.
C3_FeePayerPayloadBindsSenderAndToken ==
  feePayerPayload # <<>> =>
    /\ \A a \in Senders \ {Get(sender)} :
         getFeePayerSignPayload(envelope.value, a) # feePayerPayload
    /\ \A ft \in FeeTokens \ {envelope.value.feeToken} :
         getFeePayerSignPayload([envelope.value EXCEPT !.feeToken = ft],
                                Get(sender)) # feePayerPayload

C3_Witness ==
  /\ feePayerPayload # <<>>
  /\ sender = Some(Sender2)
  /\ envelope.value.feeToken = Some(TokenB)
  /\ feePayerPayload[2].items[12] = Str(Sender2)
  /\ feePayerPayload[2].items[11] = Str(TokenB)

\* C4: the bytes the fee payer signs start with a byte that is no transaction
\* type (0x76, 0x77), so they are never the serialized form nor the sign
\* payload preimage of any envelope.
C4_FeePayerDomainDisjoint ==
  feePayerPayload # <<>> =>
    /\ feePayerPayload[2].type \notin {serializedType, feeTokenType}
    /\ feePayerPayload[2] # serialized
    /\ feePayerPayload # signPayload
    /\ \A sg \in Signatures, fp \in FeePayers :
         LET e == [envelope.value EXCEPT !.signature = sg,
                                         !.feePayerSignature = fp]
         IN /\ serialize(e, NoOptions) # feePayerPayload[2]
            /\ getSignPayload(e) # feePayerPayload

C4_Witness ==
  /\ feePayerPayload # <<>>
  /\ feePayerPayload[2].type = 120
  /\ serialized.type = 118
  /\ signPayload[2].type = 118
  /\ envelope.value.feePayerSignature.kind = "null"

\* C5 (as stated): a list with the unsigned field count decodes without
\* signature, and a list with exactly 3 extra trailing fields decodes with a
\* secp256k1 signature.
C5_ThreeTrailingFields ==
  pc = "decoded" =>
    /\ (Len(raw.items) = lengthWithoutSignature /\ rawResult.status = "ok")
         => rawResult.value.signature = NoSignature
    /\ (Len(raw.items) = lengthWithoutSignature + 3 /\ tamper.kind = "extend")
         => /\ rawResult.status = "ok"
            /\ rawResult.value.signature.type = "secp256k1"

\* C5 (amended): deserialize tells signed from unsigned by the field count
\* alone: 13 fields decode without signature, and exactly 1 extra trailing
\* field, the serialized signature envelope (65 bytes r, s, v for
\* secp256k1), decodes with that signature; 3 extra trailing fields are
\* rejected.
C5_OneTrailingField ==
  pc = "decoded" =>
    /\ (tamper.kind = "extend" /\ tamper.n = 0)
         => /\ rawResult.status = "ok"
            /\ (Len(raw.items) = 13) <=> (rawResult.value.signature = NoSignature)
            /\ (Len(raw.items) = 14)
                 => /\ rawResult.value.signature.type \in {"secp256k1", "p256"}
                    /\ (Len(raw.items[14].b) = 65)
                         <=> (rawResult.value.signature.type = "secp256k1")
                    /\ SignatureEnvelopeSerialize(rawResult.value.signature)
                         = raw.items[14].b
    /\ (rawResult.status = "ok" /\ Len(raw.items) = 13)
         => rawResult.value.signature = NoSignature
    /\ (Len(raw.items) = 13 + 3) => rawResult.error = "InvalidSerialized"

C5_Witness ==
  /\ pc = "decoded"
  /\ tamper = [kind |-> "extend", n |-> 0]
  /\ Len(raw.items) = 14
  /\ rawResult.status = "ok"
  /\ rawResult.value.signature = Secp256k1Envelope(258, 1, 1)

\* The names of all thirteen unsigned fields, in wire order.
wireNames == attributeNames \o <<"authorizationList">>

\* C6 (as stated): a field list of neither the unsigned nor the signed
\* length fails with InvalidSerialized; too short, the error names exactly
\* the fields at the missing positions in wire order; too long, it carries
\* the bytes.
C6_NamesEveryMissingField ==
  (pc = "decoded" /\ Len(raw.items) \notin {13, 14}) =>
    /\ rawResult.status = "error"
    /\ rawResult.error = "InvalidSerialized"
    /\ Len(raw.items) < 13 =>
         rawResult.missing =
           [i \in 1..(13 - Len(raw.items)) |-> wireNames[Len(raw.items) + i]]
    /\ Len(raw.items) > 14 => rawResult.value = raw

\* C6 (amended): a field list of neither length fails with InvalidSerialized
\* and never decodes; the error carries the bytes and names exactly the
\* missing ones of the twelve fields chainId .. feePayerSignatureOrSender, in
\* wire order; the thirteenth field, authorizationList, is never named.
C6_NamesMissingAttributes ==
  (pc = "decoded" /\ Len(raw.items) \notin {13, 14}) =>
    /\ rawResult.status = "error"
    /\ rawResult.error = "InvalidSerialized"
    /\ rawResult.value = raw
    /\ Len(rawResult.missing) = IF Len(raw.items) < 12 THEN 12 - Len(raw.items) ELSE 0
    /\ \A i \in 1..Len(rawResult.missing) :
         rawResult.missing[i] = wireNames[Len(raw.items) + i]
    /\ \A i \in 1..Len(rawResult.missing) :
         rawResult.missing[i] # "authorizationList"

C6_Witness ==
  /\ pc = "decoded"
  /\ tamper = [kind |-> "truncate", n |-> 2]
  /\ rawResult.error = "InvalidSerialized"
  /\ rawResult.missing = SubSeq(attributeNames, 3, 12)

\* C7: a Batched envelope with zero calls is never accepted: assert on a
\* draft without calls, and deserialize of bytes whose calls list is empty,
\* fail with CallsEmpty whatever the other fields are.
C7_CallsEmptyAlways ==
  /\ (asserted # "none" /\ (IsNone(draft.calls) \/ draft.calls = Some(<<>>)))
       => asserted = "CallsEmpty"
  /\ (pc = "decoded"
        /\ tamper.kind \in {"emptyCalls", "emptyCallsWindow", "emptyCallsChainId"})
       => /\ rawResult.status = "error"
          /\ rawResult.error = "CallsEmpty"

C7_Witness ==
  /\ asserted = "CallsEmpty"
  /\ draft.calls = Some(<<>>)
  /\ draft.chainId = 0
  /\ draft.validBefore = Some(0) /\ draft.validAfter = Some(1)
  /\ draft.maxFeePerGas = Some(overUint256)

\* The invariants of assert, spelled out on the draft.
V_Calls == IsNone(draft.calls) \/ Len(Get(draft.calls)) = 0
V_Window ==
  /\ IsSome(draft.validBefore) /\ IsSome(draft.validAfter)
  /\ ~(Get(draft.validBefore) > Get(draft.validAfter))
V_Address ==
  /\ IsSome(draft.calls)
  /\ \E i \in 1..Len(Get(draft.calls)) :
       /\ IsSome(Get(draft.calls)[i].to)
       /\ Len(Get(Get(draft.calls)[i].to)) # 20
V_FeeCap ==
  \E f \in {draft.maxFeePerGas, draft.maxPriorityFeePerGas} :
    IsSome(f) /\ BigGT(Get(f), maxUint256)
V_Tip ==
  /\ IsSome(draft.maxFeePerGas) /\ IsSome(draft.maxPriorityFeePerGas)
  /\ BigGT(Get(draft.maxPriorityFeePerGas), Get(draft.maxFeePerGas))
V_ChainId == draft.chainId < 1

\* C8: assert throws the error of the highest-priority violated invariant:
\* CallsEmpty, InvalidValidityWindow, invalid call address, FeeCapTooHigh,
\* TipAboveFeeCap, InvalidChainId.
C8_AssertPriorityOrder ==
  asserted # "none" =>
    asserted =
      (IF V_Calls THEN "CallsEmpty"
       ELSE IF V_Window THEN "InvalidValidityWindow"
       ELSE IF V_Address THEN "InvalidAddress"
       ELSE IF V_FeeCap THEN "FeeCapTooHigh"
       ELSE IF V_Tip THEN "TipAboveFeeCap"
       ELSE IF V_ChainId THEN "InvalidChainId"
       ELSE "ok")

C8_Witness ==
  /\ asserted = "TipAboveFeeCap"
  /\ draft.chainId = 0
  /\ draft.maxFeePerGas = Some(<<10>>)
  /\ draft.maxPriorityFeePerGas = Some(<<20>>)

\* C9: on a draft that is otherwise valid, assert fails with
\* InvalidValidityWindow exactly when validBefore and validAfter are both
\* present and validBefore <= validAfter (0 counts as present), and succeeds
\* otherwise.
C9_ValidityWindow ==
  (asserted # "none" /\ ~V_Calls /\ ~V_Address /\ ~V_FeeCap /\ ~V_Tip /\ ~V_ChainId)
    => /\ (asserted = "InvalidValidityWindow")
            <=> (/\ IsSome(draft.validBefore) /\ IsSome(draft.validAfter)
                 /\ Get(draft.validBefore) <= Get(draft.validAfter))
       /\ asserted \in {"InvalidValidityWindow", "ok"}

C9_Witness ==
  /\ asserted = "InvalidValidityWindow"
  /\ draft.validBefore = Some(0)
  /\ draft.validAfter = Some(0)
  /\ ~V_Calls /\ ~V_Address /\ ~V_FeeCap /\ ~V_Tip /\ ~V_ChainId

\* C10: on a draft with no higher-priority violation, assert fails with
\* FeeCapTooHigh exactly when maxFeePerGas or maxPriorityFeePerGas exceeds
\* 2^256-1, also when maxFeePerGas is omitted; 2^256-1 itself does not
\* trigger it.
C10_FeeCapTooHigh ==
  (asserted # "none" /\ ~V_Calls /\ ~V_Window /\ ~V_Address)
    => /\ (asserted = "FeeCapTooHigh") <=> V_FeeCap
       /\ (asserted = "FeeCapTooHigh")
            => (\/ draft.maxFeePerGas = Some(overUint256)
                \/ draft.maxPriorityFeePerGas = Some(overUint256))

C10_Witness ==
  /\ asserted = "FeeCapTooHigh"
  /\ draft.maxFeePerGas = None
  /\ draft.maxPriorityFeePerGas = Some(overUint256)

\* C11: on a draft with no higher-priority violation (calls, validity window,
\* call address, fee cap), assert fails with TipAboveFeeCap exactly when
\* maxPriorityFeePerGas > maxFeePerGas, a tip equal to the cap being accepted;
\* and, the tip not being above the cap, it fails with InvalidChainId exactly
\* when chainId < 1.
C11_TipAndChainId ==
  (asserted # "none" /\ ~V_Calls /\ ~V_Window /\ ~V_Address /\ ~V_FeeCap)
    => /\ (asserted = "TipAboveFeeCap")
            <=> (/\ IsSome(draft.maxFeePerGas)
                 /\ IsSome(draft.maxPriorityFeePerGas)
                 /\ BigGT(Get(draft.maxPriorityFeePerGas),
                          Get(draft.maxFeePerGas)))
       /\ (IsSome(draft.maxFeePerGas)
             /\ draft.maxPriorityFeePerGas = draft.maxFeePerGas)
            => asserted # "TipAboveFeeCap"
       /\ (asserted # "TipAboveFeeCap")
            => ((asserted = "InvalidChainId") <=> draft.chainId < 1)

C11_Witness ==
  /\ asserted = "InvalidChainId"
  /\ draft.chainId = 0
  /\ draft.maxFeePerGas = Some(<<10>>)
  /\ draft.maxPriorityFeePerGas = Some(<<10>>)

\* C12: validate never throws; it returns false exactly for the drafts that
\* assert rejects, whatever the error, an invalid call address included, and
\* true for all others.
C12_ValidateMirrorsAssert ==
  validated # None
    => /\ Get(validated) \in BOOLEAN
       /\ Get(validated) = FALSE <=> asserted # "ok"
       /\ Get(validated) = TRUE <=> asserted = "ok"

C12_Witness ==
  /\ validated = Some(FALSE)
  /\ asserted = "InvalidAddress"

\* The fee-payer field that the three shapes of the slot stand for.
C13_SlotMeaning(slot) ==
  IF IsLst(slot)
    THEN [kind |-> "signature", yParity |-> BytesToNat(slot.l[1].b),
          r |-> BytesToNat(slot.l[2].b), s |-> BytesToNat(slot.l[3].b)]
  ELSE IF Len(slot.b) = 0 THEN NoFeePayer
  ELSE NullFeePayer

\* C13: deserialize rebuilds the fee-payer field from the shape of the
\* fee-payer slot alone, whatever the other fields and whether the
\* transaction is signed: an empty string gives no feePayerSignature, a
\* 20-byte string gives null (whichever the address), a 3-item list gives
\* the signature tuple; the other fields are decoded as before.
C13_FeePayerFromSlotShape ==
  /\ deserialized.status = "ok"
       => deserialized.value.feePayerSignature
            = C13_SlotMeaning(serialized.items[12])
  /\ (rawResult.status # "none"
        /\ tamper.kind \in {"feePayerEmpty", "feePayerAddress", "feePayerTuple"})
       => /\ rawResult.status = "ok"
          /\ rawResult.value.feePayerSignature
               = (CASE tamper.kind = "feePayerEmpty" -> NoFeePayer
                    [] tamper.kind = "feePayerAddress" -> NullFeePayer
                    [] OTHER -> FeePayerTuple(1, 2, tamper.n))
          /\ [rawResult.value EXCEPT !.feePayerSignature = NoFeePayer]
               = [deserialized.value EXCEPT !.feePayerSignature = NoFeePayer]

C13_Witness ==
  /\ tamper.kind = "feePayerEmpty"
  /\ rawResult.status = "ok"
  /\ rawResult.value.feePayerSignature = NoFeePayer
  /\ deserialized.value.feePayerSignature.kind = "signature"
  /\ deserialized.value.signature.type = "secp256k1"

\* C14: the fee-payer field round-trips through the wire: serialize then
\* deserialize gives null for feePayerSignature null, an equal tuple for a
\* {r, s, yParity} tuple, no fee-payer field for none (the field being that
\* of the envelope or the feePayerSignature option); an envelope serialized
\* with a sender address gives null.
C14_FeePayerRoundTrip ==
  /\ deserialized.status # "none"
       => /\ deserialized.status = "ok"
          /\ deserialized.value.feePayerSignature
               = envelope.value.feePayerSignature
  /\ deserializedWith.status # "none"
       => /\ deserializedWith.status = "ok"
          /\ deserializedWith.value.feePayerSignature
               = (IF IsSome(options.sender) THEN NullFeePayer
                  ELSE IF options.feePayerSignature.kind # "absent"
                    THEN options.feePayerSignature
                  ELSE envelope.value.feePayerSignature)

C14_Witness ==
  /\ deserializedWith.status = "ok"
  /\ options.sender = Some(Sender1)
  /\ options.format = "default"
  /\ envelope.value.feePayerSignature.kind = "signature"
  /\ serializedWith.items[12] = Str(Sender1)
  /\ deserializedWith.value.feePayerSignature = NullFeePayer

\* The fee-payer slot is the empty string, a 20-byte string or a 3-item list.
C15_OneOfThreeShapes(slot) ==
  \/ slot = EmptyStr
  \/ IsStr(slot) /\ Len(slot.b) = 20
  \/ IsLst(slot) /\ Len(slot.l) = 3

\* The fee-payer field that serialize encodes: the option when given, else
\* the field of the envelope.
C15_Variant(e, o) ==
  IF o.feePayerSignature.kind # "absent" THEN o.feePayerSignature
  ELSE e.feePayerSignature

\* The slot that the fee-payer variant determines.
C15_SlotIsByVariant(slot, e, o) ==
  IF IsSome(o.sender) THEN slot = Str(Get(o.sender)) /\ Len(slot.b) = 20
  ELSE IF C15_Variant(e, o).kind = "null" THEN slot = Str(<<0>>)
  ELSE IF C15_Variant(e, o).kind = "signature"
    THEN IsLst(slot) /\ Len(slot.l) = 3 /\ \A i \in 1..3 : IsStr(slot.l[i])
  ELSE slot = EmptyStr

\* C15 as stated: in every output of serialize the fee-payer slot is the
\* empty string, a raw 20-byte address or a 3-element list, nothing else.
C15_ThreeShapesOnly ==
  /\ serialized # NoWire => C15_OneOfThreeShapes(serialized.items[12])
  /\ serializedWith # NoWire => C15_OneOfThreeShapes(serializedWith.items[12])

\* C15 amended: the slot has one of four shapes, determined by the
\* fee-payer variant: the bound sender's 20-byte address when a sender is
\* given, else the single byte 0x00 when feePayerSignature is null, else a
\* 3-element list when a fee-payer signature is present, else the empty
\* string.
C15_FourShapes ==
  /\ serialized # NoWire
       => C15_SlotIsByVariant(serialized.items[12], envelope.value, NoOptions)
  /\ serializedWith # NoWire
       => C15_SlotIsByVariant(serializedWith.items[12], envelope.value, options)

C15_Witness ==
  /\ serializedWith # NoWire
  /\ options.feePayerSignature = NullFeePayer
  /\ envelope.value.feePayerSignature.kind = "signature"
  /\ serializedWith.items[12] = Str(<<0>>)

\* A scalar item: the empty string when the field is absent, a string else.
C16_Scalar(item, o) == IsStr(item) /\ (IsNone(o) => item = EmptyStr)
\* An integer item carries the field's value.
C16_Int(item, o) ==
  C16_Scalar(item, o) /\ (IsSome(o) => BytesToNat(item.b) = Get(o))
\* A byte-string item carries the field's bytes.
C16_Bytes(item, o) == C16_Scalar(item, o) /\ (IsSome(o) => item.b = Get(o))

\* The 13 fields of the Batched layout, in order, none omitted.
C16_Fields(w, e) ==
  /\ Len(w.items) >= 13
  /\ IsStr(w.items[1]) /\ BytesToNat(w.items[1].b) = e.chainId
  /\ C16_Bytes(w.items[2], e.maxPriorityFeePerGas)
  /\ C16_Bytes(w.items[3], e.maxFeePerGas)
  /\ C16_Int(w.items[4], e.gas)
  /\ IsLst(w.items[5])
  /\ Len(w.items[5].l) = Len(Get(e.calls))
  /\ \A i \in 1..Len(Get(e.calls)) :
       LET c == w.items[5].l[i]
       IN /\ IsLst(c) /\ Len(c.l) = 3
          /\ C16_Bytes(c.l[1], Get(e.calls)[i].to)
          /\ C16_Int(c.l[2], Get(e.calls)[i].value)
          /\ C16_Bytes(c.l[3], Get(e.calls)[i].data)
  /\ IsLst(w.items[6])
  /\ Len(w.items[6].l) = (IF IsSome(e.accessList) THEN Len(Get(e.accessList)) ELSE 0)
  /\ C16_Int(w.items[7], e.nonceKey)
  /\ C16_Int(w.items[8], e.nonce)
  /\ C16_Int(w.items[9], e.validBefore)
  /\ C16_Int(w.items[10], e.validAfter)
  /\ C16_Bytes(w.items[11], e.feeToken)
  /\ (IsSome(e.feeToken) => Len(w.items[11].b) = 20)
  /\ IsLst(w.items[13]) /\ (IsNone(e.authorizationList) => w.items[13] = Lst(<<>>))

\* The envelope is signed, by its own signature or by the signature option.
C16_Signed(e, o) == o.signature.type # "absent" \/ e.signature.type # "absent"

C17_Carries(slot, a, b, c) ==
  /\ IsLst(slot) /\ Len(slot.l) = 3
  /\ BytesToNat(slot.l[1].b) = a
  /\ BytesToNat(slot.l[2].b) = b
  /\ BytesToNat(slot.l[3].b) = c

\* C17 as stated: a fee-payer signature is on the wire as [r, s, yParity],
\* written so by serialize and read so by deserialize.
C17_OrderRSY ==
  /\ (serialized # NoWire /\ envelope.value.feePayerSignature.kind = "signature")
       => LET fp == envelope.value.feePayerSignature
          IN C17_Carries(serialized.items[12], fp.r, fp.s, fp.yParity)
  /\ (rawResult.status = "ok" /\ tamper.kind = "feePayerTuple")
       => LET fp == rawResult.value.feePayerSignature
          IN C17_Carries(raw.items[12], fp.r, fp.s, fp.yParity)

\* C17 amended: a fee-payer signature is on the wire as [yParity, r, s],
\* written so by serialize and read so by deserialize.
C17_OrderYRS ==
  /\ (serialized # NoWire /\ envelope.value.feePayerSignature.kind = "signature")
       => LET fp == envelope.value.feePayerSignature
          IN C17_Carries(serialized.items[12], fp.yParity, fp.r, fp.s)
  /\ (serializedWith # NoWire /\ IsNone(options.sender)
        /\ options.feePayerSignature.kind = "signature")
       => LET fp == options.feePayerSignature
          IN C17_Carries(serializedWith.items[12], fp.yParity, fp.r, fp.s)
  /\ (rawResult.status # "none" /\ tamper.kind = "feePayerTuple")
       => /\ rawResult.status = "ok"
          /\ rawResult.value.feePayerSignature.kind = "signature"
          /\ LET fp == rawResult.value.feePayerSignature
             IN C17_Carries(raw.items[12], fp.yParity, fp.r, fp.s)

C17_Witness ==
  /\ serializedWith # NoWire
  /\ IsNone(options.sender)
  /\ options.feePayerSignature = FeePayerTuple(1, 2, 0)
  /\ serializedWith.items[12] = Lst(<<EmptyStr, Str(<<1>>), Str(<<2>>)>>)

\* A byte string with no leading zero byte.
C18_Minimal(b) == Len(b) = 0 \/ b[1] # 0

\* The item is the minimal big-endian encoding of the integer field, the
\* empty string for 0 and for an omitted field.
C18_IntField(item, o) ==
  /\ IsStr(item) /\ C18_Minimal(item.b)
  /\ BytesToNat(item.b) = (IF IsSome(o) THEN Get(o) ELSE 0)
  /\ (IsNone(o) \/ Get(o) = 0) <=> item = EmptyStr

\* The same for a fee, a number given by its base-256 digits.
C18_FeeField(item, o) ==
  /\ IsStr(item) /\ C18_Minimal(item.b)
  /\ item.b = (IF IsSome(o) THEN StripZeros(Get(o)) ELSE <<>>)
  /\ (IsNone(o) \/ StripZeros(Get(o)) = <<>>) <=> item = EmptyStr

\* An optional integer with 0 taken for omitted.
C18_DropZero(o) == IF IsSome(o) /\ Get(o) = 0 THEN None ELSE o

\* The envelope with every integer field that is 0 omitted.
C18_DropZeros(e) ==
  [e EXCEPT
    !.maxPriorityFeePerGas = IF @ = Some(<<>>) THEN None ELSE @,
    !.maxFeePerGas = IF @ = Some(<<>>) THEN None ELSE @,
    !.gas = C18_DropZero(@),
    !.nonceKey = C18_DropZero(@),
    !.nonce = C18_DropZero(@),
    !.validBefore = C18_DropZero(@),
    !.validAfter = C18_DropZero(@),
    !.calls = Some([i \in 1..Len(Get(@)) |->
                     [Get(@)[i] EXCEPT !.value = C18_DropZero(@)]])]

\* C18: serialize encodes every integer field (chainId, fees, gas, nonceKey,
\* nonce, validBefore, validAfter, call value) as its minimal big-endian
\* byte string with no leading zero byte, and 0 as the empty string, so that
\* a field equal to 0 and the same field omitted give the same wire bytes.
C18_MinimalIntegers ==
  serialized # NoWire
    => LET e == envelope.value
           w == serialized.items
       IN /\ C18_IntField(w[1], Some(e.chainId))
          /\ C18_FeeField(w[2], e.maxPriorityFeePerGas)
          /\ C18_FeeField(w[3], e.maxFeePerGas)
          /\ C18_IntField(w[4], e.gas)
          /\ \A i \in 1..Len(Get(e.calls)) :
               C18_IntField(w[5].l[i].l[2], Get(e.calls)[i].value)
          /\ C18_IntField(w[7], e.nonceKey)
          /\ C18_IntField(w[8], e.nonce)
          /\ C18_IntField(w[9], e.validBefore)
          /\ C18_IntField(w[10], e.validAfter)
          /\ serialized = serialize(C18_DropZeros(e), NoOptions)

C18_Witness ==
  /\ serialized # NoWire
  /\ envelope.value.gas = Some(0)
  /\ envelope.value.validBefore = Some(0)
  /\ envelope.value.nonceKey = None
  /\ envelope.value.nonce = Some(2)
  /\ serialized.items[4] = EmptyStr
  /\ serialized.items[9] = EmptyStr
  /\ serialized.items[8] = Str(<<2>>)

\* C19: hash with presign equals getSignPayload for every envelope; hash
\* without presign is keccak256 of serialize(envelope), the attached
\* signature included; so for a signed envelope the two hashes are taken
\* over different byte strings.
C19_HashAndSignPayload ==
  /\ hashedPresign # <<>> => hashedPresign = signPayload
  /\ hashed # <<>>
       => /\ hashed = <<"keccak256", serialized>>
          /\ envelope.value.signature.type # "absent"
               => /\ Len(hashed[2].items) = 14
                  /\ hashed[2].items[14]
                       = Str(SignatureEnvelopeSerialize(envelope.value.signature))
                  /\ Len(hashedPresign[2].items) = 13
                  /\ hashed[2] # hashedPresign[2]
                  /\ hashed # hashedPresign

C19_Witness ==
  /\ hashed # <<>>
  /\ envelope.value.signature = Secp256k1Envelope(258, 1, 1)
  /\ hashedPresign = signPayload
  /\ hashed # hashedPresign

\* C20: from is idempotent: for every draft d that from accepts, with or
\* without a signature and a fee-payer field, from(from(d)) succeeds and
\* equals from(d).
C20_FromIdempotent ==
  fromAgain.status # "none"
    => /\ fromAgain.status = "ok"
       /\ fromAgain.value = envelope.value
       /\ fromAgain.value.type = "aa"
       /\ fromAgain.value = [draft EXCEPT !.type = "aa"]

C20_Witness ==
  /\ fromAgain.status = "ok"
  /\ draft.type = "absent"
  /\ draft.signature.type = "secp256k1"
  /\ draft.feePayerSignature = NullFeePayer
  /\ fromAgain = envelope

\* C21 as stated: from(draft) returns an envelope of type 'aa' in which the
\* omitted nonce, nonceKey, accessList and authorizationList are set to
\* their defaults 0, 0, [] and [].
C21_FromAppliesDefaults ==
  envelope.status = "ok"
    => /\ envelope.value.type = "aa"
       /\ IsNone(draft.nonce) => envelope.value.nonce = Some(0)
       /\ IsNone(draft.nonceKey) => envelope.value.nonceKey = Some(0)
       /\ IsNone(draft.accessList) => envelope.value.accessList = Some(<<>>)
       /\ IsNone(draft.authorizationList)
            => envelope.value.authorizationList = Some(<<>>)

\* C21 amended: from(draft) returns an envelope of type 'aa' whose other
\* fields are those of the draft: an omitted nonce, nonceKey, accessList or
\* authorizationList stays omitted.
C21_FromFillsTypeOnly ==
  envelope.status = "ok"
    => /\ envelope.value.type = "aa"
       /\ envelope.value = [draft EXCEPT !.type = "aa"]
       /\ IsNone(draft.nonce) => IsNone(envelope.value.nonce)
       /\ IsNone(draft.nonceKey) => IsNone(envelope.value.nonceKey)
       /\ IsNone(draft.accessList) => IsNone(envelope.value.accessList)
       /\ IsNone(draft.authorizationList)
            => IsNone(envelope.value.authorizationList)

C21_Witness ==
  /\ envelope.status = "ok"
  /\ draft.type = "absent"
  /\ draft.nonceKey = None /\ draft.nonce = None /\ draft.accessList = None
  /\ envelope.value.type = "aa"
  /\ envelope.value.nonceKey = None

\* The envelope with its signature and fee-payer field blanked.
C22_OtherFields(e) ==
  [e EXCEPT !.signature = NoSignature, !.feePayerSignature = NoFeePayer]

\* C22 as stated: whenever options.signature or options.feePayerSignature (a
\* tuple or null) is given, from(draft, options) carries exactly that value
\* in the field, every other field being that of from(draft).
C22_OverrideAlwaysMerged ==
  envelopeWith.status # "none"
    => /\ envelopeWith.status = "ok"
       /\ fromOptions.signature.type # "absent"
            => envelopeWith.value.signature = fromOptions.signature
       /\ fromOptions.feePayerSignature.kind # "absent"
            => envelopeWith.value.feePayerSignature = fromOptions.feePayerSignature
       /\ C22_OtherFields(envelopeWith.value) = C22_OtherFields(envelope.value)

\* A null fee-payer option given to from, and the envelope without it.
C22_Witness ==
  /\ envelopeWith.status = "ok"
  /\ fromOptions.feePayerSignature = NullFeePayer
  /\ fromOptions.signature = Secp256k1Envelope(0, 1, 0)
  /\ draft.feePayerSignature = NoFeePayer
  /\ envelopeWith.value.feePayerSignature = NoFeePayer
  /\ envelopeWith.value.signature = Secp256k1Envelope(0, 1, 0)

\* A signature envelope with one of the two tags and the fields of its
\* variant only: r, s, yParity for secp256k1; r, s, publicKey, prehash and
\* no yParity for p256.
C23_Tagged(sig) ==
  /\ sig.type \in {"secp256k1", "p256"}
  /\ sig.type = "secp256k1"
       => IsSome(sig.yParity) /\ IsNone(sig.publicKey) /\ IsNone(sig.prehash)
  /\ sig.type = "p256"
       => IsNone(sig.yParity) /\ IsSome(sig.publicKey) /\ IsSome(sig.prehash)

\* C23: every signature envelope made by SignatureEnvelope.from or by
\* deserialize carries exactly one tag, secp256k1 or p256; a bare
\* {r, s, yParity} is tagged secp256k1; a p256 envelope never carries
\* yParity, also when the signature given to from had one.
C23_OneVariantTag ==
  /\ signatureInput.shape # "none"
       => /\ C23_Tagged(signatureEnvelope)
          /\ signatureEnvelope.r = signatureInput.r
          /\ signatureEnvelope.s = signatureInput.s
          /\ signatureInput.shape = "bare"
               => /\ signatureEnvelope.type = "secp256k1"
                  /\ signatureEnvelope.yParity = signatureInput.yParity
          /\ IsSome(signatureInput.publicKey)
               => /\ signatureEnvelope.type = "p256"
                  /\ IsNone(signatureEnvelope.yParity)
  /\ \A res \in {deserialized, deserializedWith, rawResult} :
       (res.status = "ok" /\ res.value.signature # NoSignature)
         => C23_Tagged(res.value.signature)

C23_Witness ==
  /\ signatureInput.shape = "explicit"
  /\ signatureInput.publicKey = Some(3)
  /\ signatureInput.yParity = Some(1)
  /\ signatureEnvelope.type = "p256"
  /\ signatureEnvelope.yParity = None
  /\ deserialized.status = "ok"
  /\ deserialized.value.signature = P256Envelope(1, 2, 3, TRUE)

\* C24: no codec operation changes the envelope it is given: from with
\* options, serialize with a signature or feePayerSignature option, hash,
\* getSignPayload and getFeePayerSignPayload leave the draft and the
\* envelope with the fields and values they had (the envelope changes only
\* when from creates it), so the argument gains no signature and no
\* fee-payer field.
C24_NoInputMutation ==
  [][/\ draft' = draft
     /\ envelope' # envelope => pc = "asserted" /\ envelope = NotRun]_vars

C24_Witness ==
  /\ pc = "serializedWith"
  /\ options.signature.type = "secp256k1"
  /\ Len(serializedWith.items) = 14
  /\ envelope.value.signature = NoSignature
  /\ envelope.value = [draft EXCEPT !.type = "aa"]

\* C25 as stated: for every token id n that fits in 18 bytes,
\* fromAddress(toAddress(n)) = n.
C25_TokenIdRoundTrip ==
  (pc = "tokenId" /\ tokenInput.kind = "number"
     /\ Len(tokenInput.digits) <= 2 * 18)
    => /\ tokenId.status = "ok"
       /\ tokenId.value = tokenInput.digits

\* The id 2^112 comes back as 0.
C25_Witness ==
  /\ pc = "tokenId"
  /\ tokenInput = TokenNumber(<<1>> \o Zeros(28))
  /\ tokenAddress.status = "ok"
  /\ tokenId = Ok(<<>>)

\* The address is the given prefix, then 36 hex digits that are the
\* zero-padded big-endian digits of the id.
C26_PrefixThenPadded(address, prefix, digits) ==
  /\ Len(address) = Len(prefix) + 36
  /\ SubSeq(address, 1, Len(prefix)) = prefix
  /\ [i \in 1..36 |-> HexValue(address[Len(prefix) + i])]
       = Zeros(36 - Len(digits)) \o digits

C27_PrefixAnyCase ==
  (pc = "tokenId" /\ tokenInput.kind = "none")
    => /\ (tokenId.status = "ok")
            <=> startsWith(toLowerCase(addressInput), <<"2", "0", "c", "0">>)
       /\ tokenId.status = "ok"
            => tokenId = fromAddress(build, toLowerCase(addressInput))

\* The source build refuses the checksummed address of token 1.
C27_Witness ==
  /\ pc = "tokenId"
  /\ build = "src"
  /\ addressInput = checksumAddress
  /\ tokenId.status = "error"

\* The primary signature serializeTransaction has: that of the transaction,
\* else the one it is given.
C28_Primary == signature_(transaction, signatureArg)

\* The hash of the fee payer: getFeePayerSignPayload(tx, { sender }) with
\* the sender recovered from the primary signature over getSignPayload(tx).
C28_Hash ==
  LET tx == [transaction_ox(transaction) EXCEPT !.signature = C28_Primary]
  IN TxFeeTokenGetFeePayerSignPayload(
       tx, recoverAddress(TxFeeTokenGetSignPayload(tx), C28_Primary))

\* With a primary signature and a fee-payer account, sign is called once,
\* with that hash, and the bytes carry both signatures; sign is called in
\* no other case.
C28_SignsOnceAfterPrimary ==
  /\ signCalls # <<>>
       => C28_Primary.type # "absent" /\ transaction.feePayer = "account"
  /\ (C28_Primary.type # "absent" /\ transaction.feePayer = "account")
       => /\ signCalls = <<C28_Hash>>
          /\ chainSerialized.status = "ok"
               => /\ chainSerialized.value.by = "codec"
                  /\ chainSerialized.value.signature = C28_Primary
                  /\ chainSerialized.value.feePayerSignature
                       \in FeePayerSignatures

\* C28 as stated: the fee payer's sign is invoked only when a primary
\* signature is available, then exactly once with the hash of
\* getFeePayerSignPayload(tx, { sender }), and the bytes carry both
\* signatures; without a primary signature the fee payer is never asked and
\* the bytes carry only the fee-payer placeholder.
C28_PlaceholderWithoutPrimary ==
  (build = "dist" /\ pc \in {"awaitSign", "chainDone"})
    => /\ C28_SignsOnceAfterPrimary
       /\ (C28_Primary.type = "absent" /\ transaction.feePayer # "undefined")
            => /\ signCalls = <<>>
               /\ chainSerialized.status = "ok"
               /\ chainSerialized.value.signature = NoSignature
               /\ chainSerialized.value.feePayerSignature = NullFeePayer

\* C28 amended: the fee payer's sign is invoked only when a primary
\* signature is available and feePayer is an account, then exactly once
\* with the hash of getFeePayerSignPayload(tx, { sender }), and the bytes
\* carry both signatures; without a primary signature the fee payer is
\* never asked and the bytes carry no primary signature and, in the
\* fee-payer slot, the placeholder, or the feePayerSignature the transaction
\* already holds when its feePayer is an account.
C28_SignsAfterPrimary ==
  (build = "dist" /\ pc \in {"awaitSign", "chainDone"})
    => /\ C28_SignsOnceAfterPrimary
       /\ (C28_Primary.type = "absent" /\ transaction.feePayer # "undefined")
            => /\ signCalls = <<>>
               /\ chainSerialized.status = "ok"
               /\ chainSerialized.value.signature = NoSignature
               /\ chainSerialized.value.feePayerSignature
                    = IF /\ transaction.feePayer = "account"
                         /\ transaction.feePayerSignature.kind = "signature"
                        THEN transaction.feePayerSignature
                        ELSE NullFeePayer

C28_Witness ==
  /\ build = "dist"
  /\ pc = "chainDone"
  /\ transaction.signature = NoSignature
  /\ signatureArg = Secp256k1Envelope(5, 6, 1)
  /\ Len(signCalls) = 1
  /\ chainSerialized.status = "ok"
  /\ chainSerialized.value.signature = Secp256k1Envelope(5, 6, 1)
  /\ chainSerialized.value.feePayerSignature = FeePayerTuple(7, 8, 0)

\* C29 as stated: serializeTransaction terminates and returns bytes for
\* every transaction, from the FeeToken codec for a transaction of type
\* 'feeToken' or with a feeToken and from the base serializer for every
\* other, and never re-enters itself.
C29_NeverReenters ==
  /\ pc # "reenter"
  /\ (pc = "chainDone" /\ chainSerialized.error # "sign rejected")
       => /\ chainSerialized.status = "ok"
          /\ callDepth = 1
          /\ (chainSerialized.value.by = "codec")
               <=> (transaction.type = "feeToken"
                      \/ IsSome(transaction.feeToken))

\* serializers.ts given an eip1559 transaction ends in a stack overflow.
C29_Witness ==
  /\ build = "src"
  /\ pc = "chainDone"
  /\ transaction.type = "eip1559"
  /\ IsNone(transaction.feeToken)
  /\ callDepth = MaxStack
  /\ chainSerialized.status = "error"

\* C30: every request goes to exactly one transport, once: to the relay
\* when its method is eth_sendRawTransaction and to the default transport
\* otherwise, with its method, params and options, and the caller gets what
\* that transport answers.
C30_RoutesToOneTransport ==
  [][pc = "transport"
       => LET relayed == request'.method = "eth_sendRawTransaction"
              delivery == [method |-> request'.method,
                           params |-> request'.params,
                           options |-> request'.options,
                           outcome |-> response']
          IN /\ relayLog' = IF relayed THEN Append(relayLog, delivery)
                            ELSE relayLog
             /\ defaultLog' = IF relayed THEN defaultLog
                              ELSE Append(defaultLog, delivery)
             /\ response' \in IF relayed THEN RelayOutcomes
                              ELSE DefaultOutcomes]_vars

C30_Witness ==
  /\ pc = "transport"
  /\ Len(relayLog) = 1
  /\ Len(defaultLog) = 1
  /\ request.method = "eth_sendRawTransaction"
  /\ response = Err("relay error", <<>>)
  /\ defaultLog[1].outcome = Ok(<<"default result">>)

====
